---------------------------- MODULE Spec2Model ----------------------------
(***************************************************************************)
(* A model of the romba depot (archive package), its multi-key index       *)
(* (db/kv.go), the archive run's resume observer and the service's jobs.   *)
(*                                                                         *)
(* The module holds several specifications over one set of variables; each *)
(* one drives one part of the program and leaves the other variables at    *)
(* their initial values:                                                   *)
(*   SpecRoots    Depot.reserveRoot / Depot.adjustSize called in any order *)
(*   SpecArchive  archiveWorker.archive run by concurrent workers          *)
(*   SpecIndex    kvBatch.IndexDat / IndexRom / Flush and OrphanDats       *)
(*   SpecPurge    kvStore.IndexDat, a single-worker ingest, OrphanDats and *)
(*                purgeWorker.Process                                      *)
(*   SpecObserver archiveWorker.Process and archiveMaster.loopObserver     *)
(*   SpecResume   extractResumePoint and archiveMaster.Accept              *)
(*   SpecIngest     single-worker archive runs, IndexDat and OrphanDats    *)
(*   SpecPurgeSizes purgeWorker.Process with prefix-named roots            *)
(*   SpecOpen       Depot.OpenRomGZ                                        *)
(*   SpecBuild      Depot.BuildDat                                         *)
(*   SpecQuery      kvStore.DatsForRom                                     *)
(*   SpecComplete   kvStore.CompleteRom                                    *)
(*   SpecFlush      kvBatch.Flush / Close with failing writes              *)
(*   SpecGeneration kvStore.OrphanDats and NewKVStoreDB                    *)
(*   SpecIndexDat   kvStore.IndexDat of known and new Dats                 *)
(*   SpecAccounting the depot calls under depot.lock, step by step         *)
(*   SpecIndexRom   kvStore.IndexRom called by several workers at once     *)
(*   SpecService    start commands, jobs, broadCastProgress, listeners     *)
(*   SpecJobs       SpecService with no progress listener connected        *)
(*   FairService    SpecService with every possible step taken             *)
(***************************************************************************)
EXTENDS Integers, Sequences, FiniteSets, TLC

VARIABLES
    \* Depot (part_000 lines 62-69)
    sizes,      \* depot.sizes: root index -> used bytes
    start,      \* depot.start: the scan cursor of reserveRoot
    lastOp,     \* history: the last depot call, with the state it started from
    \* concurrent archive workers
    disk,       \* root index -> set of payloads whose blob file exists there
    wpc,        \* worker -> position inside archiveWorker.archive
    wjob,       \* worker -> payload being ingested
    wroot,      \* worker -> root index returned by reserveRoot
    wleft,      \* worker -> number of paths the worker may still take
    baseline,   \* history: sizes at construction (establishSize)
    ingested,   \* history: payloads whose ingest returned a compressed size
    failures,   \* history: whether some ingest returned an error
    \* the index (db/kv.go lines 88-109)
    roots,      \* depot.roots: root index -> directory name (a string of characters)
    generation, \* kvStore.generation
    genFile,    \* the integer in the generation file under the index root
    datsDB,     \* Dat key -> generation tag of the stored Dat
    crcDB,      \* CRC -> Dat keys
    md5DB,      \* MD5 -> Dat keys
    sha1DB,     \* SHA1 -> Dat keys
    crcsha1DB,  \* CRC -> SHA1s
    md5sha1DB,  \* MD5 -> SHA1s
    pending,    \* a kvBatch shared by several calls: six sub-batches and its size
    backup,     \* blobs Purge moved out of the depot, with their destination
    lastPurge,  \* history: the last purgeWorker.Process call
    retagged,   \* history: real Dats re-indexed since the last generation bump
    steps,      \* number of operations run so far (bounds SpecPurge)
    lastIngest, \* history: the last archiveWorker.archive call and what it changed
    lastQuery,  \* history: the last read-only call on the index or depot, with its result
    \* the archive run's observer (part_000 lines 733-759)
    handed,     \* number of walked paths handed to workers so far
    wpath,      \* worker index -> path inside archiveWorker.Process ("" when idle)
    comps,      \* loopObserver's comps array
    resumeLog,  \* the bytes written to resumeLogWriter
    lastEntry,  \* history: the last resume log entry and what was unprocessed then
    completed,  \* history: worker -> the last path it completed
    shutdown,   \* FinishUp's and the observer's positions, the flushed log length
    finished,   \* whether FinishUp has sent the sentinel record
    ticks,      \* number of ticker events so far
    \* a resumed run (part_000 lines 128-192, 437-442)
    resumeLines,\* the barriers a prior run logged, oldest first
    resumeFile, \* the bytes of the resume log handed to Archive
    resumePoint,\* the outcome of extractResumePoint
    walked,     \* number of walked paths offered to Accept so far
    accepted,   \* the paths Accept let through
    \* depot files as the rebuilder reads them (part_000 lines 243-308)
    trailer,    \* SHA1 of a blob -> the MD5 and CRC stored in its gzip trailer
    \* the depot's mutex and the calls that take it (part_000 lines 479-517)
    lock,       \* depot.lock: the set of goroutines holding it
    lpc,        \* goroutine -> position inside reserveRoot, adjustSize or writeSizes
    lcall,      \* goroutine -> arguments and locals of its call
    sizeFiles,  \* root index -> the number in the root's size file
    expected,   \* history: initial sizes plus committed reservations and deltas
    lastWrite,  \* history: the last completed writeSizes call
    calls,      \* number of depot calls started so far
    \* concurrent kvStore.IndexRom calls (db/kv.go lines 176-183)
    wbatch,     \* worker -> the batch of its IndexRom call, before Close
    \* the service's jobs and progress listeners (part_002)
    busy,       \* rs.busy
    jobName,    \* rs.jobName
    jobMutex,   \* rs.jobMutex: the set of goroutines holding it
    progressMutex, \* rs.progressMutex: the set of goroutines holding it
    progressListeners, \* the keys of rs.progressListeners
    rpc,        \* request -> position inside startArchive / startRefreshDats
    jpc,        \* job goroutine -> its position
    tpc,        \* job -> position of the job's ticker goroutine
    bc,         \* caller -> position inside broadCastProgress
    spc,        \* listener -> position inside SendProgress
    lastStart,  \* history: the last start command that returned
    starts,     \* number of start commands issued so far
    bticks      \* number of ticker events so far

rootVars == <<sizes, start, lastOp>>
archVars == <<disk, wpc, wjob, wroot, wleft, baseline, ingested, failures>>
storeVars == <<datsDB, crcDB, md5DB, sha1DB, crcsha1DB, md5sha1DB>>
histVars == <<lastIngest, lastQuery>>
indexVars ==
    <<roots, generation, genFile, storeVars, pending, backup, lastPurge, retagged, steps,
      histVars>>
obsVars ==
    <<handed, wpath, comps, resumeLog, lastEntry, completed, shutdown, finished, ticks>>
resumeVars == <<resumeLines, resumeFile, resumePoint, walked, accepted>>
lockVars == <<lock, lpc, lcall, sizeFiles, expected, lastWrite, calls>>
serviceVars ==
    <<busy, jobName, jobMutex, progressMutex, progressListeners, rpc, jpc, tpc, bc, spc,
      lastStart, starts, bticks>>
vars ==
    <<rootVars, archVars, indexVars, obsVars, resumeVars, trailer, lockVars, wbatch,
      serviceVars>>

\* What the depot's own operations never touch.
outsideDepot == <<indexVars, obsVars, resumeVars, trailer, lockVars, wbatch,
                   serviceVars>>

(***************************************************************************)
(* Helpers                                                                 *)
(***************************************************************************)
Min(S) == CHOOSE x \in S : \A y \in S : x <= y

RECURSIVE SumOver(_, _)
SumOver(f, S) ==
    IF S = {} THEN 0
    ELSE LET x == CHOOSE y \in S : TRUE IN f[x] + SumOver(f, S \ {x})

(***************************************************************************)
(* Depot roots and size accounting                                         *)
(***************************************************************************)
NumRoots == 2
RootCap == 3
MaxEst == 2
MaxDelta == 2

Roots == 0 .. (NumRoots - 1)

\* depot.maxSizes: the configured cap of every root.
maxSizes == [i \in Roots |-> RootCap]

\* Sizes the model lets a root take (the code's int64 never overflows here).
SizeRange == 0 .. (RootCap + MaxDelta)

\* The admission test of reserveRoot.
FitsNoEstimate(sz, i, est) == sz[i] < maxSizes[i]

Fits(sz, i, est) == sz[i] + est < maxSizes[i]

\* The loop of reserveRoot from index i on: the first fitting root takes the
\* estimate; a root found at or above its cap becomes the cursor.
RECURSIVE ReserveScan(_, _, _, _)
ReserveScan(i, sz, st, est) ==
    IF i >= NumRoots THEN [idx |-> -1, sizes |-> sz, start |-> st]
    ELSE IF Fits(sz, i, est)
         THEN [idx |-> i, sizes |-> [sz EXCEPT ![i] = @ + est], start |-> st]
         ELSE IF sz[i] >= maxSizes[i]
              THEN ReserveScan(i + 1, sz, i, est)
              ELSE ReserveScan(i + 1, sz, st, est)

reserveRootSkipsCursor(sz, st, est) == ReserveScan(st + 1, sz, st, est)

reserveRoot(sz, st, est) == ReserveScan(st, sz, st, est)

adjustSize(sz, index, delta) == [sz EXCEPT ![index] = @ + delta]

NoOp == [op |-> "none", est |-> 0, idx |-> -1, pre |-> [i \in Roots |-> 0], preStart |-> 0]

RootsInit ==
    /\ sizes \in [Roots -> 0 .. RootCap]
    /\ start = 0
    /\ lastOp = NoOp

RootsIdle ==
    /\ sizes = [i \in Roots |-> 0]
    /\ start = 0
    /\ lastOp = NoOp

(***************************************************************************)
(* Payloads and the concurrent ingest state                                *)
(***************************************************************************)
Workers == {1, 2}
MaxJobs == 2

\* Distinct contents; a payload stands for its SHA1 (and its depot file name).
Payloads == {1, 2}

\* The on-disk size the compressed-blob writer returns for a payload: the
\* compression is deterministic, so it depends on the content alone.
CompressedSize == [p \in Payloads |-> p]

\* The size argument of Process, in bytes. The same content may arrive with
\* different sizes (a raw file, or a .gz whose file size is passed on).
FileSizes == {5, 10}

\* estimatedCompressedSize := size / 5
Estimate(size) == size \div 5

\* Depot.SHA1InDepot: some root holds the blob file of the payload.
SHA1InDepot(d, p) == \E r \in Roots : p \in d[r]

NoJob == [p |-> 0, est |-> 0]

WorkersIdle ==
    /\ wpc = [w \in Workers |-> "idle"]
    /\ wjob = [w \in Workers |-> NoJob]
    /\ wroot = [w \in Workers |-> -1]
    /\ wleft = [w \in Workers |-> 0]
    /\ baseline = [i \in Roots |-> 0]
    /\ ingested = {}
    /\ failures = FALSE

ArchIdle ==
    /\ disk = [i \in Roots |-> {}]
    /\ WorkersIdle

(***************************************************************************)
(* The multi-key index (db/kv.go)                                          *)
(***************************************************************************)
MaxGen == 1
MaxBatchCalls == 2
MaxSteps == 6
MaxIngestSteps == 4

\* Digests are small numbers; 0 stands for a missing digest (nil).
NoHash == 0
Md5Of == [p \in Payloads |-> p]
\* All payloads share one CRC: CRC32 collisions are what the union maps are for.
CrcOf == [p \in Payloads |-> 1]

Sha1s == Payloads
Md5s == {Md5Of[p] : p \in Payloads}
Crcs == {CrcOf[p] : p \in Payloads}

\* The rom archiveWorker.archive builds: all three digests of the content.
PayloadRom(p) == [sha1 |-> p, md5 |-> Md5Of[p], crc |-> CrcOf[p]]

\* rom.Path of an ingested file; it is part of the artificial Dat's encoding.
RomPaths == {1, 2}

\* Catalogs handed to IndexDat: Dat 1 lists payload 1 with all digests, Dat 2
\* lists it by MD5 only, Dat 3 lists a rom by CRC only.
RealDats == {1, 2, 3}
RealDatRoms ==
    [d \in RealDats |->
        CASE d = 1 -> <<[sha1 |-> 1, md5 |-> Md5Of[1], crc |-> CrcOf[1]]>>
          [] d = 2 -> <<[sha1 |-> NoHash, md5 |-> Md5Of[1], crc |-> NoHash]>>
          [] OTHER -> <<[sha1 |-> NoHash, md5 |-> NoHash, crc |-> CrcOf[1]]>>]

\* A Dat key stands for sha1Bytes. A real Dat's key is the digest of its file;
\* an artificial Dat's key is the SHA1 of its gob encoding, which covers the
\* rom, its path and the generation set before encoding.
RealKey(d) == [art |-> FALSE, id |-> d, path |-> 0, gen |-> 0]
ArtKey(p, path, g) == [art |-> TRUE, id |-> p, path |-> path, gen |-> g]

DatRoms(k) == IF k.art THEN <<PayloadRom(k.id)>> ELSE RealDatRoms[k.id]

\* KVStore.Get: an absent key reads as nil, here the empty sequence.
Get(m, key) == IF key \in DOMAIN m THEN m[key] ELSE <<>>

SeqHas(seq, x) == \E i \in 1 .. Len(seq) : seq[i] = x

\* An append that does not look for the entry in dst.
appendSha1(dst, src) == dst \o src

\* An append that compares an entry with the last entry of dst only.
RECURSIVE appendUnlessLast(_, _)
appendUnlessLast(dst, src) ==
    IF src = <<>> THEN dst
    ELSE appendUnlessLast(IF dst # <<>> /\ dst[Len(dst)] = Head(src)
                          THEN dst ELSE Append(dst, Head(src)),
                          Tail(src))

\* appendUniqueSha1(dst, src): every 20-byte entry of src not yet in dst is
\* appended, in order.
RECURSIVE appendUniqueSha1(_, _)
appendUniqueSha1(dst, src) ==
    IF src = <<>> THEN dst
    ELSE appendUniqueSha1(IF SeqHas(dst, Head(src)) THEN dst ELSE Append(dst, Head(src)),
                          Tail(src))

\* kvStore.GetDat for every key of dBytes, skipping keys without a Dat.
RECURSIVE DecodeDats(_, _)
DecodeDats(db, keys) ==
    IF keys = <<>> THEN <<>>
    ELSE IF Head(keys) \in DOMAIN db
         THEN <<[key |-> Head(keys), gen |-> db[Head(keys)]]>> \o DecodeDats(db, Tail(keys))
         ELSE DecodeDats(db, Tail(keys))

\* A lookup that unions the three tiers.
DatsForRomAllTiers(rom) ==
    LET bySha1 == IF rom.sha1 # NoHash THEN Get(sha1DB, rom.sha1) ELSE <<>>
        byMd5 == IF rom.md5 # NoHash THEN Get(md5DB, rom.md5) ELSE <<>>
        byCrc == IF rom.crc # NoHash THEN Get(crcDB, rom.crc) ELSE <<>>
    IN DecodeDats(datsDB, appendUniqueSha1(appendUniqueSha1(bySha1, byMd5), byCrc))

\* kvStore.DatsForRom on the committed maps: the first non-empty tier wins.
DatsForRom(rom) ==
    LET bySha1 == IF rom.sha1 # NoHash THEN Get(sha1DB, rom.sha1) ELSE <<>>
        byMd5 == IF rom.md5 # NoHash /\ bySha1 = <<>> THEN Get(md5DB, rom.md5) ELSE bySha1
        dBytes == IF rom.crc # NoHash /\ byMd5 = <<>> THEN Get(crcDB, rom.crc) ELSE byMd5
    IN DecodeDats(datsDB, dBytes)

\* A batch: the pending writes of the six sub-batches and kvBatch.size (counted
\* in additions, not bytes: the code only tests it against 0).
EmptyBatch ==
    [dats |-> <<>>, crc |-> <<>>, md5 |-> <<>>, sha1 |-> <<>>,
     crcsha1 |-> <<>>, md5sha1 |-> <<>>, size |-> 0]

\* The number of IndexDat / IndexRom calls the shared batch has taken since its
\* last flush (the caller flushes on a size threshold).
EmptyPending == [batch |-> EmptyBatch, calls |-> 0]

BatchCat(a, b) ==
    [dats |-> a.dats \o b.dats, crc |-> a.crc \o b.crc, md5 |-> a.md5 \o b.md5,
     sha1 |-> a.sha1 \o b.sha1, crcsha1 |-> a.crcsha1 \o b.crcsha1,
     md5sha1 |-> a.md5sha1 \o b.md5sha1, size |-> a.size + b.size]

SetOp(key, val) == [kind |-> "set", key |-> key, val |-> val]
AppendOp(key, val) == [kind |-> "append", key |-> key, val |-> <<val>>]

\* The writes of IndexDat for one rom without the SHA1 cross-links.
RomOpsNoLinks(k, r) ==
    [dats |-> <<>>,
     sha1 |-> IF r.sha1 # NoHash THEN <<AppendOp(r.sha1, k)>> ELSE <<>>,
     md5 |-> IF r.md5 # NoHash THEN <<AppendOp(r.md5, k)>> ELSE <<>>,
     md5sha1 |-> <<>>,
     crc |-> IF r.crc # NoHash THEN <<AppendOp(r.crc, k)>> ELSE <<>>,
     crcsha1 |-> <<>>,
     size |-> (IF r.sha1 # NoHash THEN 1 ELSE 0) + (IF r.md5 # NoHash THEN 1 ELSE 0)
              + (IF r.crc # NoHash THEN 1 ELSE 0)]

\* The writes IndexDat adds for one rom of Dat k (lines 585-620).
RomOps(k, r) ==
    [dats |-> <<>>,
     sha1 |-> IF r.sha1 # NoHash THEN <<AppendOp(r.sha1, k)>> ELSE <<>>,
     md5 |-> IF r.md5 # NoHash THEN <<AppendOp(r.md5, k)>> ELSE <<>>,
     md5sha1 |-> IF r.md5 # NoHash /\ r.sha1 # NoHash
                 THEN <<AppendOp(r.md5, r.sha1)>> ELSE <<>>,
     crc |-> IF r.crc # NoHash THEN <<AppendOp(r.crc, k)>> ELSE <<>>,
     crcsha1 |-> IF r.crc # NoHash /\ r.sha1 # NoHash
                 THEN <<AppendOp(r.crc, r.sha1)>> ELSE <<>>,
     size |-> (IF r.sha1 # NoHash THEN 1 ELSE 0)
              + (IF r.md5 # NoHash THEN (IF r.sha1 # NoHash THEN 2 ELSE 1) ELSE 0)
              + (IF r.crc # NoHash THEN (IF r.sha1 # NoHash THEN 2 ELSE 1) ELSE 0)]

RECURSIVE RomsOps(_, _)
RomsOps(k, roms) ==
    IF roms = <<>> THEN EmptyBatch
    ELSE BatchCat(RomOps(k, Head(roms)), RomsOps(k, Tail(roms)))

\* An IndexDat that writes the dats entry and never traverses the games.
IndexDatOpsDatsOnly(k) ==
    [EmptyBatch EXCEPT !.dats = <<SetOp(k, generation)>>, !.size = 1]

\* kvBatch.IndexDat(dat, sha1Bytes): the Dat is tagged with the current
\* generation and always written to the dats sub-batch; its roms are appended
\* unless a non-artificial Dat is already in the committed datsDB.
IndexDatOps(k) ==
    LET exists == IF k.art THEN FALSE ELSE k \in DOMAIN datsDB
        head == [EmptyBatch EXCEPT !.dats = <<SetOp(k, generation)>>, !.size = 1]
    IN IF exists THEN head ELSE BatchCat(head, RomsOps(k, DatRoms(k)))

\* An IndexRom that declares the cross-links and nothing else.
IndexRomOpsLinksOnly(rom, path) ==
    [EmptyBatch EXCEPT
        !.crcsha1 = IF rom.sha1 # NoHash /\ rom.crc # NoHash
                    THEN <<AppendOp(rom.crc, rom.sha1)>> ELSE <<>>,
        !.md5sha1 = IF rom.sha1 # NoHash /\ rom.md5 # NoHash
                    THEN <<AppendOp(rom.md5, rom.sha1)>> ELSE <<>>,
        !.size = IF rom.sha1 # NoHash
                 THEN (IF rom.crc # NoHash THEN 1 ELSE 0) + (IF rom.md5 # NoHash THEN 1 ELSE 0)
                 ELSE 0]

\* kvBatch.IndexRom(rom), lines 446-537, for a rom read at the given path.
IndexRomOps(rom, path) ==
    LET links ==
            IF rom.sha1 # NoHash
            THEN [EmptyBatch EXCEPT
                    !.crcsha1 = IF rom.crc # NoHash
                                THEN <<AppendOp(rom.crc, rom.sha1)>> ELSE <<>>,
                    !.md5sha1 = IF rom.md5 # NoHash
                                THEN <<AppendOp(rom.md5, rom.sha1)>> ELSE <<>>,
                    !.size = (IF rom.crc # NoHash THEN 1 ELSE 0)
                             + (IF rom.md5 # NoHash THEN 1 ELSE 0)]
            ELSE EmptyBatch
        dats == DatsForRom(rom)
        ssd == Get(sha1DB, rom.sha1)
        fromMd5 == IF rom.md5 # NoHash
                   THEN appendUniqueSha1(<<>>, Get(md5DB, rom.md5)) ELSE <<>>
        sha1s == IF rom.crc # NoHash
                 THEN appendUniqueSha1(fromMd5, Get(crcDB, rom.crc)) ELSE fromMd5
    IN IF Len(dats) > 0
       THEN IF Len(ssd) = 0 /\ Len(sha1s) > 0
            THEN BatchCat(links, [EmptyBatch EXCEPT !.sha1 = <<SetOp(rom.sha1, sha1s)>>])
            ELSE links
       ELSE BatchCat(links, IndexDatOps(ArtKey(rom.sha1, path, generation)))

\* KVStore.WriteBatch: the pending writes of one sub-batch take effect in the
\* order they were added; Append is the append-union of section 4.4.
RECURSIVE ApplyOps(_, _)
ApplyOps(m, ops) ==
    IF ops = <<>> THEN m
    ELSE LET op == Head(ops)
             cur == Get(m, op.key)
             new == IF op.kind = "set" THEN op.val ELSE appendUniqueSha1(cur, op.val)
         IN ApplyOps([x \in DOMAIN m \cup {op.key} |-> IF x = op.key THEN new ELSE m[x]],
                     Tail(ops))

EmptyMap(keys) == [k \in keys |-> <<>>]

NoIngest ==
    [p |-> 0, path |-> 0, onlyneeded |-> FALSE, present |-> FALSE, needed |-> FALSE,
     refs |-> {}, recorded |-> {}, changed |-> FALSE, hadDats |-> FALSE, missing |-> {},
     failed |-> FALSE, before |-> << >>]

NoQuery == [op |-> "none"]

NoPurge ==
    [p |-> 0, moved |-> FALSE, refs |-> {}, stale |-> {}, reindexed |-> {}, gen |-> 0,
     failed |-> FALSE, root |-> 0, before |-> << >>, after |-> << >>]

IndexIdle ==
    /\ roots = [i \in Roots |-> <<i + 1>>]
    /\ generation = 0
    /\ genFile = 0
    /\ datsDB = << >>
    /\ crcDB = EmptyMap(Crcs)
    /\ md5DB = EmptyMap(Md5s)
    /\ sha1DB = EmptyMap(Sha1s)
    /\ crcsha1DB = EmptyMap(Crcs)
    /\ md5sha1DB = EmptyMap(Md5s)
    /\ pending = EmptyPending
    /\ backup = {}
    /\ lastPurge = NoPurge
    /\ lastIngest = NoIngest
    /\ lastQuery = NoQuery
    /\ retagged = {}
    /\ steps = 0

(***************************************************************************)
(* Paths, the resume log and the observer's state                          *)
(***************************************************************************)
numWorkers == 2
MaxPaths == 4
MaxTicks == 3
MaxLines == 3

\* Strings are sequences of bytes; "" is the empty sequence.
Newline == 10
EmptyString == << >>

\* Go's string comparison: bytewise lexicographic.
RECURSIVE StrLess(_, _)
StrLess(a, b) ==
    IF b = << >> THEN FALSE
    ELSE IF a = << >> THEN TRUE
    ELSE IF a[1] # b[1] THEN a[1] < b[1]
    ELSE StrLess(Tail(a), Tail(b))

\* The k-th path of the walk, "a" < "b" < "c" < ...: the harness emits the
\* accepted paths in this order.
Path(k) == <<96 + k>>
WalkPaths == {Path(k) : k \in 1 .. MaxPaths}

RECURSIVE InsertSorted(_, _)
InsertSorted(x, seq) ==
    IF seq = << >> THEN <<x>>
    ELSE IF StrLess(Head(seq), x) THEN <<Head(seq)>> \o InsertSorted(x, Tail(seq))
    ELSE <<x>> \o seq

\* sort.Strings: ascending, the empty string first.
RECURSIVE SortStrings(_)
SortStrings(seq) ==
    IF seq = << >> THEN << >> ELSE InsertSorted(Head(seq), SortStrings(Tail(seq)))

\* Worker indexes as NewWorker receives them; comps[i + 1] is Go's comps[i].
ObsWorkers == 0 .. (numWorkers - 1)

NoEntry ==
    [called |-> FALSE, written |-> FALSE, line |-> EmptyString, unprocessed |-> {},
     late |-> FALSE, done |-> {}]

\* FinishUp has not been called, the observer waits in its select, nothing of
\* the log is in the file.
NoShutdown == [fpc |-> "run", opc |-> "select", durable |-> 0, atClose |-> 0]

ObserverIdle ==
    /\ handed = 0
    /\ wpath = [w \in ObsWorkers |-> EmptyString]
    /\ comps = [i \in 1 .. numWorkers |-> EmptyString]
    /\ resumeLog = << >>
    /\ lastEntry = NoEntry
    /\ completed = [w \in ObsWorkers |-> EmptyString]
    /\ shutdown = NoShutdown
    /\ finished = FALSE
    /\ ticks = 0

NoResume == [state |-> "none", point |-> EmptyString]

ResumeIdle ==
    /\ resumeLines = << >>
    /\ resumeFile = << >>
    /\ resumePoint = NoResume
    /\ walked = 0
    /\ accepted = {}

\* The trailer archive() writes: the MD5 and CRC of the blob's content.
PayloadTrailers == [p \in Payloads |-> [md5 |-> Md5Of[p], crc |-> CrcOf[p]]]

TrailersIdle == trailer = PayloadTrailers

\* The goroutines that call into the depot: the workers and the observer.
ObserverProc == 0
LockProcs == Workers \cup {ObserverProc}

NoCall == [op |-> "none", i |-> 0, amt |-> 0, tmp |-> 0, snap |-> << >>, failed |-> FALSE]

NoWrite == [done |-> FALSE, failed |-> FALSE, snap |-> << >>, files |-> << >>]

LockIdle ==
    /\ lock = {}
    /\ lpc = [p \in LockProcs |-> "idle"]
    /\ lcall = [p \in LockProcs |-> NoCall]
    /\ sizeFiles = [i \in Roots |-> 0]
    /\ expected = [i \in Roots |-> 0]
    /\ lastWrite = NoWrite
    /\ calls = 0

\* No kvStore.IndexRom call is between its lookup and its Close.
NoBatch == [active |-> FALSE, batch |-> EmptyBatch]

BatchesIdle == wbatch = [w \in Workers |-> NoBatch]

\* The service: concurrent requests, job goroutines, their tickers, the
\* callers of broadCastProgress and the progress listeners.
NumListeners == 1
MaxLaunches == 2
Requests == {1, 2}
JobIds == 1 .. MaxLaunches
Listeners == 1 .. NumListeners
Callers == {"job", "tick"} \X JobIds

NoStartCall == [pc |-> "idle", cmd |-> "", args |-> FALSE]

NoBroadcast == [pc |-> "idle", cur |-> 0, todo |-> {}]

NoStart ==
    [cmd |-> "", busyBefore |-> FALSE, nameBefore |-> "", launched |-> FALSE, err |-> FALSE,
     busyAfter |-> FALSE, nameAfter |-> "", working |-> {}, alive |-> {}]

NoJobRun == [pc |-> "none", kind |-> ""]

\* NewRombaService, part_002 lines 83-93: no job, no listener.
ServiceIdle ==
    /\ busy = FALSE
    /\ jobName = ""
    /\ jobMutex = {}
    /\ progressMutex = {}
    /\ progressListeners = {}
    /\ rpc = [r \in Requests |-> NoStartCall]
    /\ jpc = [j \in JobIds |-> NoJobRun]
    /\ tpc = [j \in JobIds |-> "none"]
    /\ bc = [c \in Callers |-> NoBroadcast]
    /\ spc = [l \in Listeners |-> "none"]
    /\ lastStart = NoStart
    /\ starts = 0
    /\ bticks = 0

HarnessIdle ==
    ObserverIdle /\ ResumeIdle /\ TrailersIdle /\ LockIdle /\ BatchesIdle /\ ServiceIdle

(***************************************************************************)
(* SpecRoots: reserveRoot and adjustSize called in any order               *)
(***************************************************************************)
ReserveRootCall(est) ==
    LET r == reserveRoot(sizes, start, est) IN
    /\ sizes' = r.sizes
    /\ start' = r.start
    /\ lastOp' = [op |-> "reserve", est |-> est, idx |-> r.idx,
                  pre |-> sizes, preStart |-> start]
    /\ UNCHANGED <<archVars, outsideDepot>>

AdjustSizeCall(i, delta) ==
    /\ sizes[i] + delta \in SizeRange
    /\ sizes' = adjustSize(sizes, i, delta)
    /\ lastOp' = [op |-> "adjust", est |-> delta, idx |-> i,
                  pre |-> sizes, preStart |-> start]
    /\ UNCHANGED <<start, archVars, outsideDepot>>

InitRoots == RootsInit /\ ArchIdle /\ IndexIdle /\ HarnessIdle

NextRoots ==
    \/ \E est \in 0 .. MaxEst : ReserveRootCall(est)
    \/ \E i \in Roots, delta \in (-MaxDelta) .. MaxDelta : AdjustSizeCall(i, delta)

SpecRoots == InitRoots /\ [][NextRoots]_vars

\* The roots that would take the estimate in the state the call started from.
FittingRoots(pre, est) == {i \in Roots : pre[i] + est < maxSizes[i]}

\* C3: reserve_root(est) succeeds iff some root i has sizes[i] + est <
\* maxSizes[i], and then returns the lowest such index among all roots and adds
\* est to exactly that root's size.
C3_FirstFitAmongAllRoots ==
    lastOp.op = "reserve" =>
        LET fit == FittingRoots(lastOp.pre, lastOp.est) IN
        /\ (lastOp.idx # -1) <=> (fit # {})
        /\ lastOp.idx # -1 =>
              /\ lastOp.idx = Min(fit)
              /\ sizes = [lastOp.pre EXCEPT ![lastOp.idx] = @ + lastOp.est]

\* C4: whenever reserve_root(est) with est >= 0 succeeds with index i,
\* sizes[i] <= maxSizes[i] holds in the state right after the reservation.
C4_AdmissionSafety ==
    (lastOp.op = "reserve" /\ lastOp.est >= 0 /\ lastOp.idx # -1) =>
        sizes[lastOp.idx] <= maxSizes[lastOp.idx]

\* A reservation with a positive estimate, after the cursor has moved, that
\* fills the chosen root to one below its cap.
C4_Witness ==
    /\ lastOp.op = "reserve"
    /\ lastOp.idx # -1
    /\ lastOp.est > 0
    /\ lastOp.preStart > 0
    /\ sizes[lastOp.idx] = maxSizes[lastOp.idx] - 1

ArchiveBegin(w, p, size) ==
    /\ wpc[w] = "idle"
    /\ wleft[w] > 0
    /\ wleft' = [wleft EXCEPT ![w] = @ - 1]
    /\ wjob' = [wjob EXCEPT ![w] = [p |-> p, est |-> Estimate(size)]]
    /\ wpc' = [wpc EXCEPT ![w] = "check"]
    /\ UNCHANGED <<rootVars, disk, wroot, baseline, ingested, failures, outsideDepot>>

\* Lines 606-614: the blob is already there, return 0.
ArchiveSkip(w) ==
    /\ wpc[w] = "check"
    /\ SHA1InDepot(disk, wjob[w].p)
    /\ wpc' = [wpc EXCEPT ![w] = "idle"]
    /\ UNCHANGED <<rootVars, disk, wjob, wroot, wleft, baseline, ingested, failures, outsideDepot>>

\* Lines 606-614: the blob is not there, go on.
ArchiveMissing(w) ==
    /\ wpc[w] = "check"
    /\ ~SHA1InDepot(disk, wjob[w].p)
    /\ wpc' = [wpc EXCEPT ![w] = "reserve"]
    /\ UNCHANGED <<rootVars, disk, wjob, wroot, wleft, baseline, ingested, failures, outsideDepot>>

\* Lines 616-621: reserveRoot(size / 5); an error ends the ingest.
ArchiveReserve(w) ==
    LET r == reserveRoot(sizes, start, wjob[w].est) IN
    /\ wpc[w] = "reserve"
    /\ sizes' = r.sizes
    /\ start' = r.start
    /\ wroot' = [wroot EXCEPT ![w] = r.idx]
    /\ wpc' = [wpc EXCEPT ![w] = IF r.idx = -1 THEN "idle" ELSE "write"]
    /\ failures' = (failures \/ r.idx = -1)
    /\ UNCHANGED <<lastOp, disk, wjob, wleft, baseline, ingested, outsideDepot>>

\* Lines 623-634: the blob file is created (or overwritten) in the chosen root.
ArchiveWrite(w) ==
    /\ wpc[w] = "write"
    /\ disk' = [disk EXCEPT ![wroot[w]] = @ \cup {wjob[w].p}]
    /\ wpc' = [wpc EXCEPT ![w] = "adjust"]
    /\ UNCHANGED <<rootVars, wjob, wroot, wleft, baseline, ingested, failures, outsideDepot>>

\* Lines 636-637: adjustSize(root, compressedSize - estimatedCompressedSize).
ArchiveAdjust(w) ==
    /\ wpc[w] = "adjust"
    /\ sizes' = adjustSize(sizes, wroot[w], CompressedSize[wjob[w].p] - wjob[w].est)
    /\ ingested' = ingested \cup {wjob[w].p}
    /\ wpc' = [wpc EXCEPT ![w] = "idle"]
    /\ UNCHANGED <<start, lastOp, disk, wjob, wroot, wleft, baseline, failures, outsideDepot>>

InitArchive ==
    /\ sizes \in [Roots -> 0 .. RootCap]
    /\ baseline = sizes
    /\ start = 0
    /\ lastOp = NoOp
    /\ disk = [i \in Roots |-> {}]
    /\ wpc = [w \in Workers |-> "idle"]
    /\ wjob = [w \in Workers |-> NoJob]
    /\ wroot = [w \in Workers |-> -1]
    /\ wleft = [w \in Workers |-> MaxJobs]
    /\ ingested = {}
    /\ failures = FALSE
    /\ IndexIdle
    /\ HarnessIdle

NextArchive ==
    \/ \E w \in Workers, p \in Payloads, size \in FileSizes : ArchiveBegin(w, p, size)
    \/ \E w \in Workers : ArchiveSkip(w)
    \/ \E w \in Workers : ArchiveMissing(w)
    \/ \E w \in Workers : ArchiveReserve(w)
    \/ \E w \in Workers : ArchiveWrite(w)
    \/ \E w \in Workers : ArchiveAdjust(w)

SpecArchive == InitArchive /\ [][NextArchive]_vars

AllIdle == \A w \in Workers : wpc[w] = "idle"

RootsHolding(p) == {r \in Roots : p \in disk[r]}

\* The on-disk size of all blob files of one root.
BlobBytes == [r \in Roots |-> SumOver(CompressedSize, disk[r])]

\* C1: after an Archive run with concurrent workers, the depot holds at most
\* one blob per distinct SHA1 across all roots and exactly one blob for every
\* SHA1 that was successfully ingested.
C1_OneBlobPerSha1 ==
    AllIdle =>
        \A p \in Payloads :
            /\ Cardinality(RootsHolding(p)) <= 1
            /\ p \in ingested => Cardinality(RootsHolding(p)) = 1

\* C2: whenever no ingest is in progress and every ingest so far succeeded,
\* the sum of the root sizes equals the initial baseline plus the on-disk
\* sizes of the blobs present in the depot.
C2_SizeConservation ==
    (AllIdle /\ ~failures) =>
        SumOver(sizes, Roots) = SumOver(baseline, Roots) + SumOver(BlobBytes, Roots)

(***************************************************************************)
(* Index and purge operations                                              *)
(***************************************************************************)
\* Root directory names: distinct one-character names, or names of which each
\* is a string prefix of the next ("/d", "/dd").
RootConfigs ==
    {[i \in Roots |-> <<i + 1>>], [i \in Roots |-> [j \in 1 .. (i + 1) |-> 1]]}

IsPrefix(a, b) == Len(a) <= Len(b) /\ \A i \in 1 .. Len(a) : a[i] = b[i]

\* The path of a blob file below root r: the root, a separator, the shards.
Slash == 0
InPath(r) == roots[r] \o <<Slash>>

\* purgeWorker.Process lines 166-172: the first root whose name is a prefix of
\* the blob's path.
RootIndexOf(r) == Min({i \in Roots : IsPrefix(roots[i], InPath(r))})

\* kvBatch.Flush / KVStore.WriteBatch of all six sub-batches of b.
Commit(b) ==
    /\ datsDB' = ApplyOps(datsDB, b.dats)
    /\ crcDB' = ApplyOps(crcDB, b.crc)
    /\ md5DB' = ApplyOps(md5DB, b.md5)
    /\ sha1DB' = ApplyOps(sha1DB, b.sha1)
    /\ crcsha1DB' = ApplyOps(crcsha1DB, b.crcsha1)
    /\ md5sha1DB' = ApplyOps(md5sha1DB, b.md5sha1)

\* The real Dats a flush of b tags anew although they carried an older tag.
Retags(b) ==
    {b.dats[i].key : i \in {j \in 1 .. Len(b.dats) :
        /\ ~b.dats[j].key.art
        /\ b.dats[j].key \in DOMAIN datsDB
        /\ datsDB[b.dats[j].key] < b.dats[j].val}}

\* batch.IndexDat(dat, sha1Bytes) on the shared batch.
BatchIndexDat(d) ==
    /\ pending.calls < MaxBatchCalls
    /\ pending' = [batch |-> BatchCat(pending.batch, IndexDatOps(RealKey(d))),
                   calls |-> pending.calls + 1]
    /\ UNCHANGED <<rootVars, archVars, roots, generation, genFile, storeVars, backup, lastPurge, retagged,
                   histVars>>

\* batch.IndexRom(rom) on the shared batch.
BatchIndexRom(p, path) ==
    /\ pending.calls < MaxBatchCalls
    /\ pending' = [batch |-> BatchCat(pending.batch, IndexRomOps(PayloadRom(p), path)),
                   calls |-> pending.calls + 1]
    /\ UNCHANGED <<rootVars, archVars, roots, generation, genFile, storeVars, backup, lastPurge, retagged,
                   histVars>>

\* kvBatch.Flush, lines 377-420; a batch of size 0 is left as it is.
BatchFlush ==
    /\ pending.batch.size # 0
    /\ Commit(pending.batch)
    /\ retagged' = retagged \cup Retags(pending.batch)
    /\ pending' = EmptyPending
    /\ UNCHANGED <<rootVars, archVars, roots, generation, genFile, backup, lastPurge, histVars>>

\* kvStore.OrphanDats, lines 194-201.
OrphanDats ==
    /\ generation < MaxGen
    /\ generation' = generation + 1
    /\ genFile' = generation + 1
    /\ retagged' = {}
    /\ UNCHANGED <<rootVars, archVars, roots, storeVars, pending, backup, lastPurge, histVars>>

\* The keys of a sequence of Dat keys.
KeySet(seq) == {seq[i] : i \in 1 .. Len(seq)}

\* Whether a rom entry of a Dat describes payload p: by its strongest digest.
RomMatches(rom, p) ==
    IF rom.sha1 # NoHash THEN rom.sha1 = p
    ELSE IF rom.md5 # NoHash THEN rom.md5 = Md5Of[p]
    ELSE rom.crc = CrcOf[p]

\* The non-artificial Dats of any generation that list payload p.
RealRefs(p) ==
    {k \in DOMAIN datsDB :
        ~k.art /\ \E i \in 1 .. Len(DatRoms(k)) : RomMatches(DatRoms(k)[i], p)}

\* The non-artificial Dats stored in datsDB that some union map records under
\* one of the rom's digests.
RecordedRealDats(rom) ==
    {k \in KeySet(Get(sha1DB, rom.sha1)) \cup KeySet(Get(md5DB, rom.md5))
            \cup KeySet(Get(crcDB, rom.crc)) : ~k.art /\ k \in DOMAIN datsDB}

\* A filter that takes any Dat, artificial ones included, as a reference.
NeededAnyDat(dats) == Len(dats) > 0

\* The loop of archiveWorker.archive over the Dats of the rom, lines 588-595.
Needed(dats) == \E i \in 1 .. Len(dats) : ~dats[i].key.art

\* archiveWorker.archive run by one worker from start to end: the onlyneeded
\* filter, kvStore.IndexRom (a batch of its own, closed at once), SHA1InDepot,
\* reserveRoot, the blob write and adjustSize.
archive(p, path, size, onlyneeded) ==
    LET rom == PayloadRom(p)
        dats == DatsForRom(rom)
        needed == Needed(dats)
        b == IndexRomOps(rom, path)
        est == Estimate(size)
        r == reserveRoot(sizes, start, est)
    IN
    /\ IF onlyneeded /\ ~needed
       THEN UNCHANGED <<storeVars, sizes, start, disk, ingested, failures>>
       ELSE /\ Commit(IF b.size = 0 THEN EmptyBatch ELSE b)
            /\ IF SHA1InDepot(disk, p)
               THEN UNCHANGED <<sizes, start, disk, ingested, failures>>
               ELSE IF r.idx = -1
                    THEN /\ start' = r.start
                         /\ failures' = TRUE
                         /\ UNCHANGED <<sizes, disk, ingested>>
                    ELSE /\ start' = r.start
                         /\ disk' = [disk EXCEPT ![r.idx] = @ \cup {p}]
                         /\ sizes' = adjustSize(r.sizes, r.idx, CompressedSize[p] - est)
                         /\ ingested' = ingested \cup {p}
                         /\ UNCHANGED failures
    /\ lastIngest' =
            [p |-> p, path |-> path, onlyneeded |-> onlyneeded,
             present |-> SHA1InDepot(disk, p), needed |-> needed,
             refs |-> RealRefs(p), recorded |-> RecordedRealDats(rom),
             changed |-> (<<sizes, start, disk, storeVars>>' # <<sizes, start, disk, storeVars>>),
             hadDats |-> (Len(dats) > 0),
             missing |-> IF onlyneeded /\ ~needed THEN {}
                         ELSE (KeySet(Get(md5DB', rom.md5)) \cup KeySet(Get(crcDB', rom.crc)))
                                  \ KeySet(Get(sha1DB', rom.sha1)),
             failed |-> FALSE, before |-> sizes]
    /\ UNCHANGED <<lastOp, wpc, wjob, wroot, wleft, baseline, roots, generation, genFile,
                   pending, backup, lastPurge, retagged, lastQuery>>

\* An archive run that reaches line 623 and fails there or at line 629: the
\* source cannot be reopened, or the blob cannot be written.  IndexRom has
\* been committed and reserveRoot has added the estimate; both error returns
\* leave archive without a call of adjustSize.
archiveFails(p, path, size) ==
    LET rom == PayloadRom(p)
        dats == DatsForRom(rom)
        b == IndexRomOps(rom, path)
        est == Estimate(size)
        r == reserveRoot(sizes, start, est)
    IN
    /\ ~SHA1InDepot(disk, p)
    /\ r.idx # -1
    /\ Commit(IF b.size = 0 THEN EmptyBatch ELSE b)
    /\ start' = r.start
    /\ sizes' = r.sizes
    /\ failures' = TRUE
    /\ UNCHANGED <<disk, ingested>>
    /\ lastIngest' =
            [p |-> p, path |-> path, onlyneeded |-> FALSE,
             present |-> FALSE, needed |-> Needed(dats),
             refs |-> RealRefs(p), recorded |-> RecordedRealDats(rom),
             changed |-> (<<sizes, start, disk, storeVars>>' # <<sizes, start, disk, storeVars>>),
             hadDats |-> (Len(dats) > 0),
             missing |-> (KeySet(Get(md5DB', rom.md5)) \cup KeySet(Get(crcDB', rom.crc)))
                              \ KeySet(Get(sha1DB', rom.sha1)),
             failed |-> TRUE, before |-> sizes]
    /\ UNCHANGED <<lastOp, wpc, wjob, wroot, wleft, baseline, roots, generation, genFile,
                   pending, backup, lastPurge, retagged, lastQuery>>

\* Archive run with onlyneeded = false.
Ingest(p, path, size) == archive(p, path, size, FALSE)

\* Archive run with onlyneeded = true.
IngestOnlyNeeded(p, path, size) == archive(p, path, size, TRUE)

\* The loop of purgeWorker.Process over the Dats of the rom, lines 139-150:
\* a real Dat of the current generation ends it; realDat is the last real Dat
\* seen before.
RECURSIVE PurgeScan(_, _)
PurgeScan(dats, realDat) ==
    IF dats = <<>> THEN [used |-> FALSE, realDat |-> realDat]
    ELSE LET dat == Head(dats) IN
         IF ~dat.key.art /\ dat.gen = generation
         THEN [used |-> TRUE, realDat |-> realDat]
         ELSE PurgeScan(Tail(dats), IF ~dat.key.art THEN dat.key.id ELSE realDat)

\* The non-artificial Dats of the current generation that list payload p.
CurrentRealRefs(p) ==
    {k \in DOMAIN datsDB :
        /\ ~k.art
        /\ datsDB[k] = generation
        /\ \E i \in 1 .. Len(DatRoms(k)) : RomMatches(DatRoms(k)[i], p)}

\* The non-artificial Dats that list payload p and carry an older generation.
StaleRealRefs(p) ==
    {k \in DOMAIN datsDB :
        /\ ~k.art
        /\ datsDB[k] < generation
        /\ \E i \in 1 .. Len(DatRoms(k)) : RomMatches(DatRoms(k)[i], p)}

\* purgeWorker.Process for the blob of payload p found below root r.
Purge(r, p) ==
    LET scan == PurgeScan(DatsForRom(PayloadRom(p)), 0) IN
    /\ p \in disk[r]
    /\ IF scan.used
       THEN UNCHANGED <<sizes, disk, backup>>
       ELSE /\ disk' = [disk EXCEPT ![r] = @ \ {p}]
            /\ backup' = backup \cup {[p |-> p, dest |-> scan.realDat]}
            /\ sizes' = adjustSize(sizes, RootIndexOf(r), -CompressedSize[p])
    /\ lastPurge' = [p |-> p, moved |-> ~scan.used, refs |-> CurrentRealRefs(p),
                     stale |-> StaleRealRefs(p),
                     reindexed |-> CurrentRealRefs(p) \cap retagged, gen |-> generation,
                     failed |-> FALSE, root |-> r, before |-> sizes, after |-> sizes']
    /\ UNCHANGED <<start, lastOp, wpc, wjob, wroot, wleft, baseline, ingested, failures,
                   roots, generation, genFile, storeVars, pending, retagged, histVars>>

\* purgeWorker.Process for an unused blob whose worker.Mv returns an error,
\* lines 161-164: Process returns before the root lookup and adjustSize.
PurgeMoveFails(r, p) ==
    LET scan == PurgeScan(DatsForRom(PayloadRom(p)), 0) IN
    /\ p \in disk[r]
    /\ ~scan.used
    /\ UNCHANGED <<sizes, disk, backup>>
    /\ lastPurge' = [p |-> p, moved |-> FALSE, refs |-> CurrentRealRefs(p),
                     stale |-> StaleRealRefs(p),
                     reindexed |-> CurrentRealRefs(p) \cap retagged, gen |-> generation,
                     failed |-> TRUE, root |-> r, before |-> sizes, after |-> sizes']
    /\ UNCHANGED <<start, lastOp, wpc, wjob, wroot, wleft, baseline, ingested, failures,
                   roots, generation, genFile, storeVars, pending, retagged, histVars>>

\* kvStore.IndexDat, lines 185-192: a batch of its own, closed at once.
StoreIndexDat(d) ==
    LET b == IndexDatOps(RealKey(d)) IN
    /\ Commit(b)
    /\ retagged' = retagged \cup Retags(b)
    /\ UNCHANGED <<rootVars, archVars, roots, generation, genFile, pending, backup, lastPurge,
                   histVars>>

StoreEmpty ==
    /\ generation = 0
    /\ genFile = 0
    /\ datsDB = << >>
    /\ crcDB = EmptyMap(Crcs)
    /\ md5DB = EmptyMap(Md5s)
    /\ sha1DB = EmptyMap(Sha1s)
    /\ crcsha1DB = EmptyMap(Crcs)
    /\ md5sha1DB = EmptyMap(Md5s)
    /\ pending = EmptyPending
    /\ backup = {}
    /\ lastPurge = NoPurge
    /\ lastIngest = NoIngest
    /\ lastQuery = NoQuery
    /\ retagged = {}
    /\ steps = 0

InitIndex ==
    /\ RootsIdle
    /\ ArchIdle
    /\ roots = [i \in Roots |-> <<i + 1>>]
    /\ StoreEmpty
    /\ HarnessIdle

\* An operation of a run whose length is not counted.
Free(A) == A /\ UNCHANGED <<steps, obsVars, resumeVars, trailer, lockVars, wbatch,
                   serviceVars>>

\* One more operation of a run of at most MaxSteps operations.
Step(A) ==
    steps < MaxSteps /\ A /\ steps' = steps + 1 /\ UNCHANGED <<obsVars, resumeVars, trailer, lockVars, wbatch,
                   serviceVars>>

\* One more operation of a run of at most MaxIngestSteps operations.
IngestStep(A) ==
    /\ steps < MaxIngestSteps
    /\ A
    /\ steps' = steps + 1
    /\ UNCHANGED <<obsVars, resumeVars, trailer, lockVars, wbatch,
                   serviceVars>>

NextIndex ==
    \/ \E d \in RealDats : Free(BatchIndexDat(d))
    \/ \E p \in Payloads, path \in RomPaths : Free(BatchIndexRom(p, path))
    \/ Free(BatchFlush)
    \/ Free(OrphanDats)

SpecIndex == InitIndex /\ [][NextIndex]_vars

\* Dat k is recorded under every digest of each rom it lists.
Listed(k) ==
    \A i \in 1 .. Len(DatRoms(k)) :
        LET r == DatRoms(k)[i] IN
        /\ r.sha1 # NoHash => SeqHas(Get(sha1DB, r.sha1), k)
        /\ r.md5 # NoHash => SeqHas(Get(md5DB, r.md5), k)
        /\ r.crc # NoHash => SeqHas(Get(crcDB, r.crc), k)

\* C6: once every batch is flushed, each indexed Dat's key is contained in
\* sha1DB, md5DB and crcDB under every digest its roms carry, whatever
\* IndexDat and IndexRom calls went through one batch or several.
C6_IndexUnion ==
    pending = EmptyPending => \A k \in DOMAIN datsDB : Listed(k)

(***************************************************************************)
(* SpecPurge: Dats indexed and flushed one call at a time, a single-worker *)
(* ingest, OrphanDats and purgeWorker.Process, in any order.               *)
(***************************************************************************)
InitPurge ==
    /\ RootsIdle
    /\ ArchIdle
    /\ roots \in RootConfigs
    /\ StoreEmpty
    /\ HarnessIdle

NextPurge ==
    \/ \E d \in RealDats : Step(StoreIndexDat(d))
    \/ Step(OrphanDats)
    \/ \E p \in Payloads, path \in RomPaths, size \in FileSizes : Step(Ingest(p, path, size))
    \/ \E r \in Roots, p \in Payloads : Step(Purge(r, p))

SpecPurge == InitPurge /\ [][NextPurge]_vars

(***************************************************************************)
(* SpecIngest: Dats indexed one call at a time, OrphanDats and single-     *)
(* worker archive runs with and without onlyneeded, in any order.          *)
(***************************************************************************)
InitIngest ==
    /\ RootsIdle
    /\ ArchIdle
    /\ roots = [i \in Roots |-> <<i + 1>>]
    /\ StoreEmpty
    /\ HarnessIdle

NextIngest ==
    \/ \E d \in RealDats : IngestStep(StoreIndexDat(d))
    \/ IngestStep(OrphanDats)
    \/ \E p \in Payloads, path \in RomPaths, size \in FileSizes : IngestStep(Ingest(p, path, size))
    \/ \E p \in Payloads, path \in RomPaths, size \in FileSizes :
            IngestStep(IngestOnlyNeeded(p, path, size))
    \/ \E p \in Payloads, path \in RomPaths, size \in FileSizes :
            IngestStep(archiveFails(p, path, size))

SpecIngest == InitIngest /\ [][NextIngest]_vars

\* C11: an archive run over a payload whose blob is already in the depot,
\* read from the same path or from another one, reserves no root, writes no
\* blob and leaves the root sizes, the depot files and the six index maps as
\* they were.
C11_IdempotentIngest ==
    lastIngest.present => ~lastIngest.changed

\* The payload was ingested from path 1 at generation 0 when nothing referenced
\* it, and has now been ingested again from path 2.
C11_Witness ==
    /\ lastIngest.present
    /\ lastIngest.path = 2
    /\ ArtKey(lastIngest.p, 1, 0) \in DOMAIN datsDB

C16_IndexRomUnion ==
    (lastIngest.p # 0 /\ lastIngest.hadDats) => lastIngest.missing = {}

NoDuplicate(val) == \A i, j \in 1 .. Len(val) : val[i] = val[j] => i = j

Count(val, x) == Cardinality({i \in 1 .. Len(val) : val[i] = x})

\* The SHA1 of a rom with SHA1 is held exactly once under its MD5 and under
\* its CRC.
Linked(rom) ==
    rom.sha1 # NoHash =>
        /\ rom.md5 # NoHash => Count(Get(md5sha1DB, rom.md5), rom.sha1) = 1
        /\ rom.crc # NoHash => Count(Get(crcsha1DB, rom.crc), rom.sha1) = 1

\* C20: once IndexRom(R), or IndexDat of a Dat listing R, is flushed,
\* md5sha1DB[R.md5] and crcsha1DB[R.crc] hold R.sha1 exactly once, however
\* often the call is repeated.
C20_DigestCrossLinks ==
    /\ \A k \in DOMAIN datsDB :
           \A i \in 1 .. Len(DatRoms(k)) : Linked(DatRoms(k)[i])
    /\ (lastIngest.p # 0 /\ (lastIngest.onlyneeded => lastIngest.needed)) =>
           Linked(PayloadRom(lastIngest.p))

\* Payload 1 was indexed from a first path, then listed by Dat 1, then
\* indexed again from a second path.
C20_Witness ==
    /\ lastIngest.p = 1
    /\ lastIngest.path = 2
    /\ ArtKey(1, 1, 0) \in DOMAIN datsDB
    /\ RealKey(1) \in DOMAIN datsDB

C30_FailedIngestReleases ==
    lastIngest.failed => sizes = lastIngest.before

C9_PurgeSafety ==
    lastPurge.moved => lastPurge.refs = {}

\* C10: after OrphanDats, Purge moves a blob whose non-artificial Dats all
\* carry an older generation, and keeps a blob one of whose Dats was indexed
\* again after the bump.
C10_GenerationSoftDeletion ==
    /\ (lastPurge.gen >= 1 /\ lastPurge.stale # {} /\ lastPurge.refs = {}) => lastPurge.moved
    /\ (lastPurge.gen >= 1 /\ lastPurge.reindexed # {}) => ~lastPurge.moved

(***************************************************************************)
(* SpecPurgeSizes: short runs of IndexDat, OrphanDats, archive and Purge   *)
(* over a depot whose roots have distinct names or prefix-related names,   *)
(* with Purge's move succeeding or failing.                                *)
(***************************************************************************)
NextPurgeSizes ==
    \/ \E d \in RealDats : IngestStep(StoreIndexDat(d))
    \/ IngestStep(OrphanDats)
    \/ \E p \in Payloads, path \in RomPaths, size \in FileSizes :
            IngestStep(Ingest(p, path, size))
    \/ \E r \in Roots, p \in Payloads : IngestStep(Purge(r, p))
    \/ \E r \in Roots, p \in Payloads : IngestStep(PurgeMoveFails(r, p))

SpecPurgeSizes == InitPurge /\ [][NextPurgeSizes]_vars

\* C29: a Purge call that moves a blob lowers the size of the root the blob
\* was in by the blob's size and leaves the other roots' sizes alone, also
\* when one root's name is a prefix of another's; a call that keeps the blob,
\* or whose move fails, changes no size.
C29_PurgeAccounting ==
    lastPurge.p # 0 =>
        lastPurge.after =
            IF lastPurge.moved
            THEN [lastPurge.before EXCEPT ![lastPurge.root] = @ - CompressedSize[lastPurge.p]]
            ELSE lastPurge.before

(***************************************************************************)
(* SpecObserver: the workers of one Archive run and its resume observer    *)
(***************************************************************************)
\* The operands of fmt.Fprint(w, "%s\n", comps[0]): Fprint formats nothing, it
\* writes the first operand as it is, then the second.
FprintOperand == <<37, 115, Newline>>

\* The paths that are inside Process or still to be handed out.
Unprocessed ==
    {Path(k) : k \in (handed + 1) .. MaxPaths}
        \cup {wpath[w] : w \in {v \in ObsWorkers : wpath[v] # EmptyString}}

\* The last completed paths of the workers that have completed one.
Done == {completed[w] : w \in {v \in ObsWorkers : completed[v] # EmptyString}}

\* archiveMaster.writeResumeLogEntry(comps): sort.Strings sorts the caller's
\* slice in place. The entry and depot.writeSizes go together; late records
\* that the sentinel had been handled before.
writeResumeLogEntry ==
    IF comps[1] # EmptyString
    THEN LET sorted == SortStrings(comps) IN
         /\ comps' = sorted
         /\ resumeLog' = resumeLog \o FprintOperand \o sorted[1]
         /\ lastEntry' = [called |-> TRUE, written |-> TRUE, line |-> sorted[1],
                          unprocessed |-> Unprocessed,
                          late |-> (finished /\ shutdown.opc = "select"),
                          done |-> Done]
    ELSE /\ lastEntry' = [NoEntry EXCEPT !.called = TRUE, !.done = Done]
         /\ UNCHANGED <<comps, resumeLog>>

\* The harness hands the next walked path to an idle worker.
Dispatch(w) ==
    /\ ~finished
    /\ wpath[w] = EmptyString
    /\ handed < MaxPaths
    /\ handed' = handed + 1
    /\ wpath' = [wpath EXCEPT ![w] = Path(handed + 1)]
    /\ UNCHANGED <<comps, resumeLog, lastEntry, completed, shutdown, finished, ticks>>

\* archiveWorker.Process returns nil: its record passes through the unbuffered
\* channel soFar and loopObserver stores it, comps[comp.workerIndex] = comp.path.
ProcessDone(w) ==
    /\ wpath[w] # EmptyString
    /\ shutdown.opc = "select"
    /\ comps' = [comps EXCEPT ![w + 1] = wpath[w]]
    /\ completed' = [completed EXCEPT ![w] = wpath[w]]
    /\ wpath' = [wpath EXCEPT ![w] = EmptyString]
    /\ UNCHANGED <<handed, resumeLog, lastEntry, shutdown, finished, ticks>>

\* archiveWorker.Process returns an error: no record is sent.
ProcessError(w) ==
    /\ wpath[w] # EmptyString
    /\ wpath' = [wpath EXCEPT ![w] = EmptyString]
    /\ UNCHANGED <<handed, comps, resumeLog, lastEntry, completed, shutdown, finished, ticks>>

\* loopObserver, case <-ticker.C. The break of the sentinel case leaves the
\* select, not the for loop, so that the case stays enabled after FinishUp.
Tick ==
    /\ shutdown.opc = "select"
    /\ ticks < MaxTicks
    /\ ticks' = ticks + 1
    /\ writeResumeLogEntry
    /\ UNCHANGED <<handed, wpath, completed, shutdown, finished>>

\* archiveMaster.FinishUp once the walk is drained, line 463: the sentinel
\* record passes through the unbuffered channel soFar as soon as the observer
\* receives it in its select; the send returns then.
FinishUpSend ==
    /\ ~finished
    /\ handed = MaxPaths
    /\ \A w \in ObsWorkers : wpath[w] = EmptyString
    /\ shutdown.opc = "select"
    /\ finished' = TRUE
    /\ shutdown' = [shutdown EXCEPT !.fpc = "sent", !.opc = "sentinel"]
    /\ UNCHANGED <<handed, wpath, comps, resumeLog, lastEntry, completed, ticks>>

\* loopObserver, the sentinel case: a last entry is written, break leaves the
\* select and the loop goes on.
ObserverSentinel ==
    /\ shutdown.opc = "sentinel"
    /\ writeResumeLogEntry
    /\ shutdown' = [shutdown EXCEPT !.opc = "select"]
    /\ UNCHANGED <<handed, wpath, completed, finished, ticks>>

\* FinishUp, lines 467-468: depot.writeSizes, then resumeLogWriter.Flush
\* moves what the writer holds to the file.
FinishUpFlush ==
    /\ shutdown.fpc = "sent"
    /\ shutdown' = [shutdown EXCEPT !.fpc = "flushed", !.durable = Len(resumeLog)]
    /\ UNCHANGED <<handed, wpath, comps, resumeLog, lastEntry, completed, finished, ticks>>

\* FinishUp, line 470: resumeLogFile.Close.
FinishUpClose ==
    /\ shutdown.fpc = "flushed"
    /\ shutdown' = [shutdown EXCEPT !.fpc = "closed", !.atClose = Len(resumeLog)]
    /\ UNCHANGED <<handed, wpath, comps, resumeLog, lastEntry, completed, finished, ticks>>

InitObserver ==
    /\ RootsIdle
    /\ ArchIdle
    /\ IndexIdle
    /\ ObserverIdle
    /\ ResumeIdle
    /\ TrailersIdle
    /\ LockIdle
    /\ BatchesIdle
    /\ ServiceIdle

\* What the workers and the observer of an Archive run leave alone here.
outsideObserver == <<rootVars, archVars, indexVars, resumeVars, trailer, lockVars, wbatch,
                   serviceVars>>

NextObserver ==
    \/ \E w \in ObsWorkers : Dispatch(w) /\ UNCHANGED outsideObserver
    \/ \E w \in ObsWorkers : ProcessDone(w) /\ UNCHANGED outsideObserver
    \/ \E w \in ObsWorkers : ProcessError(w) /\ UNCHANGED outsideObserver
    \/ Tick /\ UNCHANGED outsideObserver
    \/ FinishUpSend /\ UNCHANGED outsideObserver
    \/ ObserverSentinel /\ UNCHANGED outsideObserver
    \/ FinishUpFlush /\ UNCHANGED outsideObserver
    \/ FinishUpClose /\ UNCHANGED outsideObserver

SpecObserver == InitObserver /\ [][NextObserver]_vars

\* C7: every entry the observer writes to the resume log, on a tick or at
\* shutdown, is a safe barrier: when it is written no path lexicographically
\* at or below it is inside Process or still to be handed to a worker.
C7_BarrierSafety ==
    lastEntry.written =>
        \A q \in lastEntry.unprocessed : StrLess(lastEntry.line, q)

\* C15: once the sentinel record of FinishUp has been handled the observer
\* handles no further tick: no entry is written to the resume log, and no
\* writeSizes call made, by a loop iteration that follows the sentinel.
C15_ObserverShutdown == lastEntry.written => ~lastEntry.late

\* C23: the observer's entry for worker w is the last path w completed; the
\* line written by a tick or at shutdown is the smallest of the entries of the
\* workers that completed a path, and it is written whenever there is one.
C23_ObserverBookkeeping ==
    /\ \A w \in ObsWorkers : comps[w + 1] = completed[w]
    /\ lastEntry.written =>
           /\ lastEntry.line \in lastEntry.done
           /\ \A q \in lastEntry.done : q = lastEntry.line \/ StrLess(lastEntry.line, q)
    /\ (lastEntry.called /\ lastEntry.done # {}) => lastEntry.written

\* C24: the entry the observer writes for the sentinel is in the writer when
\* FinishUp flushes it, and nothing is written once the file is closed.
C24_FinalBarrierDurable ==
    /\ shutdown.fpc \in {"flushed", "closed"} => shutdown.opc = "select"
    /\ shutdown.fpc = "closed" => Len(resumeLog) = shutdown.atClose

(***************************************************************************)
(* SpecResume: an Archive run started with a resume log                    *)
(***************************************************************************)
\* A resume log with one barrier per line, each line ended by a newline.
RECURSIVE FileOf(_)
FileOf(lines) ==
    IF lines = << >> THEN << >> ELSE Head(lines) \o <<Newline>> \o FileOf(Tail(lines))

\* The successive results of reader.ReadString('\n') with len(line) > 0: each
\* line keeps its delimiter; the bytes after the last delimiter form a line too.
RECURSIVE ReadLines(_, _)
ReadLines(buf, line) ==
    IF buf = << >> THEN (IF line = << >> THEN << >> ELSE <<line>>)
    ELSE IF Head(buf) = Newline
         THEN <<Append(line, Newline)>> \o ReadLines(Tail(buf), << >>)
         ELSE ReadLines(Tail(buf), Append(line, Head(buf)))

\* ring.New(n): n slots whose Value is nil.
NilValue == [isNil |-> TRUE, str |-> EmptyString]
StringValue(str) == [isNil |-> FALSE, str |-> str]

\* The loop of lines 152-166: rng.Value = line; rng = rng.Next(). The result
\* is the ring and the slot rng ends at.
RECURSIVE RingFill(_, _, _)
RingFill(rng, at, lines) ==
    IF lines = << >> THEN [rng |-> rng, at |-> at]
    ELSE RingFill([rng EXCEPT ![at] = StringValue(Head(lines))],
                  (at + 1) % Cardinality(DOMAIN rng), Tail(lines))

\* rng.Do of lines 179-185 from slot at, n slots to go: line := v.(string)
\* panics on a nil Value; a non-empty line is stored at lineCursor.
RECURSIVE RingDo(_, _, _, _)
RingDo(rng, at, n, lines) ==
    IF n = 0 THEN [panic |-> FALSE, lines |-> lines]
    ELSE LET v == rng[at] IN
         IF v.isNil THEN [panic |-> TRUE, lines |-> lines]
         ELSE RingDo(rng, (at + 1) % Cardinality(DOMAIN rng), n - 1,
                     IF Len(v.str) > 0 THEN Append(lines, v.str) ELSE lines)

\* extractResumePoint(resumePath, numWorkers) on a file of the given bytes,
\* which is shorter than the 10240 bytes read from its end.
extractResumePoint(file, n) ==
    LET read == ReadLines(file, << >>)
        numLines == Len(read)
        filled == RingFill([i \in 0 .. (n - 1) |-> NilValue], 0, read)
        done == RingDo(filled.rng, filled.at, n, << >>)
        \* lines := make([]string, numLines): the slots Do leaves alone stay "".
        lines == done.lines \o [i \in 1 .. (numLines - Len(done.lines)) |-> EmptyString]
    IN IF numLines = 0 THEN [state |-> "error", point |-> EmptyString]
       ELSE IF done.panic THEN [state |-> "panic", point |-> EmptyString]
       ELSE [state |-> "ok", point |-> SortStrings(lines)[1]]

\* archiveMaster.Accept(path).
Accept(path) ==
    IF resumePoint.point # EmptyString THEN StrLess(resumePoint.point, path) ELSE TRUE

\* Depot.Archive up to worker.Work: the resume point is extracted.
ArchiveStart ==
    /\ resumePoint.state = "none"
    /\ resumePoint' = extractResumePoint(resumeFile, numWorkers)
    /\ UNCHANGED <<resumeLines, resumeFile, walked, accepted>>

\* The walk offers its next path to Accept.
WalkNext ==
    /\ resumePoint.state = "ok"
    /\ walked < MaxPaths
    /\ walked' = walked + 1
    /\ accepted' = IF Accept(Path(walked + 1)) THEN accepted \cup {Path(walked + 1)}
                   ELSE accepted
    /\ UNCHANGED <<resumeLines, resumeFile, resumePoint>>

\* Logs of one to MaxLines barriers, each a walked path.
ResumeLogs == UNION {[1 .. n -> WalkPaths] : n \in 1 .. MaxLines}

InitResume ==
    /\ RootsIdle
    /\ ArchIdle
    /\ IndexIdle
    /\ ObserverIdle
    /\ TrailersIdle
    /\ LockIdle
    /\ BatchesIdle
    /\ ServiceIdle
    /\ resumeLines \in ResumeLogs
    /\ resumeFile = FileOf(resumeLines)
    /\ resumePoint = NoResume
    /\ walked = 0
    /\ accepted = {}

\* What the start of a resumed run leaves alone.
outsideResume == <<rootVars, archVars, indexVars, obsVars, trailer, lockVars, wbatch,
                   serviceVars>>

NextResume ==
    \/ ArchiveStart /\ UNCHANGED outsideResume
    \/ WalkNext /\ UNCHANGED outsideResume

SpecResume == InitResume /\ [][NextResume]_vars

\* The last n entries of a sequence, all of them when it has fewer.
LastOf(seq, n) ==
    IF Len(seq) <= n THEN seq ELSE SubSeq(seq, Len(seq) - n + 1, Len(seq))

\* The barrier of a log: the smallest of its last numWorkers lines.
Barrier(lines) == SortStrings(LastOf(lines, numWorkers))[1]

\* C8: a run started with resume=L starts, and once its walk is over it has
\* handed to the workers exactly the walked paths strictly greater than the
\* smallest of the last numWorkers lines of L, for logs of fewer than,
\* exactly and more than numWorkers lines.
C8_ResumePoint ==
    /\ resumePoint.state # "panic"
    /\ (resumePoint.state = "ok" /\ walked = MaxPaths) =>
            accepted = {q \in WalkPaths : StrLess(Barrier(resumeLines), q)}

(***************************************************************************)
(* SpecOpen: Depot.OpenRomGZ on any depot content                          *)
(***************************************************************************)
\* The roms handed to OpenRomGZ: rom.Sha1 as the sequence of its 20-byte
\* candidates (empty for nil), MD5 and CRC as digests with NoHash for nil.
CandidateLists == {<<>>, <<1>>, <<2>>, <<1, 2>>, <<2, 1>>}
OpenRoms ==
    [sha1s : CandidateLists, md5 : {NoHash} \cup Md5s, crc : {NoHash} \cup Md5s]

\* The trailers a blob can carry.
Trailers == [md5 : Md5s, crc : Md5s]

NoFile == [err |-> FALSE, root |-> -1, sha1 |-> NoHash]

\* for _, root := range depot.roots: the first root holding a blob of sha1.
FirstRootWith(c) ==
    IF \E i \in Roots : c \in disk[i] THEN Min({i \in Roots : c \in disk[i]}) ELSE -1

\* Lines 281-294: the blob is taken when its trailer MD5 or its trailer CRC
\* equals the rom's.
TrailerMatches(rom, c) ==
    \/ rom.md5 # NoHash /\ rom.md5 = trailer[c].md5
    \/ rom.crc # NoHash /\ rom.crc = trailer[c].crc

\* Lines 266-304: the candidates in order, each looked up in the roots in order.
RECURSIVE OpenCollision(_, _)
OpenCollision(rom, cands) ==
    IF cands = << >> THEN NoFile
    ELSE LET c == Head(cands)
             root == FirstRootWith(c)
         IN IF root = -1 THEN OpenCollision(rom, Tail(cands))
            ELSE IF rom.crc # NoHash \/ rom.md5 # NoHash
                 THEN IF TrailerMatches(rom, c)
                      THEN [err |-> FALSE, root |-> root, sha1 |-> c]
                      ELSE OpenCollision(rom, Tail(cands))
                 ELSE [err |-> FALSE, root |-> root, sha1 |-> c]

\* Depot.OpenRomGZ(rom).
OpenRomGZ(rom) ==
    IF rom.sha1s = << >> THEN [err |-> TRUE, root |-> -1, sha1 |-> NoHash]
    ELSE IF Len(rom.sha1s) = 1
         THEN LET root == FirstRootWith(rom.sha1s[1]) IN
              IF root = -1 THEN NoFile
              ELSE [err |-> FALSE, root |-> root, sha1 |-> rom.sha1s[1]]
         ELSE OpenCollision(rom, rom.sha1s)

\* One call per run.
OpenRomGZCall(rom) ==
    /\ lastQuery = NoQuery
    /\ lastQuery' = [op |-> "open", rom |-> rom, result |-> OpenRomGZ(rom)]
    /\ UNCHANGED <<rootVars, archVars, roots, generation, genFile, storeVars, pending, backup,
                   lastPurge, retagged, steps, lastIngest, obsVars, resumeVars, trailer, lockVars, wbatch,
                   serviceVars>>

InitOpen ==
    /\ RootsIdle
    /\ WorkersIdle
    /\ disk \in [Roots -> SUBSET Payloads]
    /\ trailer \in [Payloads -> Trailers]
    /\ LockIdle
    /\ BatchesIdle
    /\ ServiceIdle
    /\ IndexIdle
    /\ ObserverIdle
    /\ ResumeIdle

NextOpen == \E rom \in OpenRoms : OpenRomGZCall(rom)

SpecOpen == InitOpen /\ [][NextOpen]_vars

\* The candidates of the rom whose blob is in the depot with the rom's MD5 in
\* its trailer.
Md5Matches(rom) ==
    {c \in KeySet(rom.sha1s) :
        (\E i \in Roots : c \in disk[i]) /\ trailer[c].md5 = rom.md5}

\* C13: for a rom with several SHA1 candidates and an MD5, with or without a
\* CRC, when exactly one candidate blob in the depot carries the rom's MD5,
\* OpenRomGZ returns that blob.
C13_CollisionDisambiguation ==
    (/\ lastQuery.op = "open"
     /\ Len(lastQuery.rom.sha1s) > 1
     /\ lastQuery.rom.md5 # NoHash
     /\ Cardinality(Md5Matches(lastQuery.rom)) = 1)
        => lastQuery.result.sha1 \in Md5Matches(lastQuery.rom)

(***************************************************************************)
(* SpecBuild: Depot.BuildDat on any depot content                          *)
(***************************************************************************)
MaxGames == 2
MaxRoms == 2
MaxDatRoms == 3

\* The roms of the Dats handed to BuildDat: without SHA1 or with one SHA1.
BuildRoms == [sha1s : {<<>>, <<1>>, <<2>>}, md5 : {NoHash}, crc : {NoHash}]
RomLists == UNION {[1 .. n -> BuildRoms] : n \in 0 .. MaxRoms}

\* dat.Games: the lists of n games holding at most budget roms in all; the
\* games are named by their position.
RECURSIVE GameLists(_, _)
GameLists(n, budget) ==
    IF n = 0 THEN {<< >>}
    ELSE UNION {{Append(games, [name |-> n, roms |-> roms]) :
                    games \in GameLists(n - 1, budget - Len(roms))} :
                roms \in {rl \in RomLists : Len(rl) <= budget}}

\* The Dats handed to BuildDat hold at most MaxDatRoms roms in all.
BuildDats == UNION {GameLists(n, MaxDatRoms) : n \in 0 .. MaxGames}

\* A rebuild that leaves roms without SHA1 out of the fix game.
RECURSIVE GameLoopDropsNoSha1(_, _, _)
GameLoopDropsNoSha1(roms, fixRoms, foundRom) ==
    IF roms = << >> THEN [err |-> FALSE, fixRoms |-> fixRoms, foundRom |-> foundRom]
    ELSE LET rom == Head(roms)
             romGZ == OpenRomGZ(rom)
         IN IF rom.sha1s = << >> THEN GameLoopDropsNoSha1(Tail(roms), fixRoms, foundRom)
            ELSE IF romGZ.sha1 = NoHash
                 THEN GameLoopDropsNoSha1(Tail(roms), Append(fixRoms, rom), foundRom)
                 ELSE GameLoopDropsNoSha1(Tail(roms), fixRoms, TRUE)

buildGameDropsNoSha1(game) == GameLoopDropsNoSha1(game.roms, << >>, FALSE)

\* The loop of buildGame over game.Roms, lines 379-432: fixRoms are the roms
\* of fixGame (nil when there are none).
RECURSIVE GameLoop(_, _, _)
GameLoop(roms, fixRoms, foundRom) ==
    IF roms = << >> THEN [err |-> FALSE, fixRoms |-> fixRoms, foundRom |-> foundRom]
    ELSE LET rom == Head(roms)
             romGZ == OpenRomGZ(rom)
         IN IF rom.sha1s = << >>
            THEN GameLoop(Tail(roms), Append(fixRoms, rom), foundRom)
            ELSE IF romGZ.err
                 THEN [err |-> TRUE, fixRoms |-> << >>, foundRom |-> FALSE]
                 ELSE IF romGZ.sha1 = NoHash
                      THEN GameLoop(Tail(roms), Append(fixRoms, rom), foundRom)
                      ELSE GameLoop(Tail(roms), fixRoms, TRUE)

\* Depot.buildGame(game, gamePath).
buildGame(game) == GameLoop(game.roms, << >>, FALSE)

\* The loop of BuildDat over dat.Games, lines 320-341: fixGames are the games
\* of fixDat (nil when there are none), removed the game files deleted again.
RECURSIVE DatLoop(_, _, _)
DatLoop(games, fixGames, removed) ==
    IF games = << >> THEN [err |-> FALSE, ok |-> fixGames = << >>, fixDat |-> fixGames,
                            removed |-> removed]
    ELSE LET game == Head(games)
             built == buildGame(game)
         IN IF built.err
            THEN [err |-> TRUE, ok |-> FALSE, fixDat |-> << >>, removed |-> removed]
            ELSE DatLoop(Tail(games),
                         IF built.fixRoms # << >>
                         THEN Append(fixGames, [name |-> game.name, roms |-> built.fixRoms])
                         ELSE fixGames,
                         IF built.foundRom THEN removed ELSE removed \cup {game.name})

\* Depot.BuildDat(dat, outpath).
BuildDat(dat) == DatLoop(dat, << >>, {})

\* One call per run.
BuildDatCall(dat) ==
    /\ lastQuery = NoQuery
    /\ lastQuery' = [op |-> "build", dat |-> dat, result |-> BuildDat(dat)]
    /\ UNCHANGED <<rootVars, archVars, roots, generation, genFile, storeVars, pending, backup,
                   lastPurge, retagged, steps, lastIngest, obsVars, resumeVars, trailer, lockVars, wbatch,
                   serviceVars>>

\* The depot holds any set of blobs, all of them under one root.
InitBuild ==
    /\ RootsIdle
    /\ WorkersIdle
    /\ \E r \in Roots, held \in SUBSET Payloads :
            disk = [i \in Roots |-> IF i = r THEN held ELSE {}]
    /\ IndexIdle
    /\ HarnessIdle

NextBuild == \E dat \in BuildDats : BuildDatCall(dat)

SpecBuild == InitBuild /\ [][NextBuild]_vars

\* The rom has a SHA1 and a blob of that SHA1 is in some root.
HasBlob(rom) == rom.sha1s # << >> /\ \E i \in Roots : rom.sha1s[1] \in disk[i]
LacksBlob(rom) == ~HasBlob(rom)
HasRoms(game) == game.roms # << >>

\* The games of the Dat reduced to their roms without blob, games without such
\* a rom left out.
ExpectedFix(dat) ==
    SelectSeq([i \in 1 .. Len(dat) |->
                  [name |-> dat[i].name, roms |-> SelectSeq(dat[i].roms, LacksBlob)]],
              HasRoms)

\* C14: BuildDat returns true iff every rom of every game has a SHA1 and a
\* blob in the depot; otherwise the fix Dat holds exactly the roms without
\* SHA1 or without blob, grouped under their games.
C14_RebuildCompleteness ==
    (lastQuery.op = "build" /\ ~lastQuery.result.err) =>
        /\ lastQuery.result.ok <=>
               \A i \in 1 .. Len(lastQuery.dat) :
                   \A j \in 1 .. Len(lastQuery.dat[i].roms) :
                       HasBlob(lastQuery.dat[i].roms[j])
        /\ lastQuery.result.fixDat = ExpectedFix(lastQuery.dat)

\* A Dat of two games was rebuilt: one game complete, the other with a rom
\* without SHA1 and a rom without blob.
C14_Witness ==
    /\ lastQuery.op = "build"
    /\ ~lastQuery.result.ok
    /\ Len(lastQuery.dat) = 2
    /\ Len(lastQuery.result.fixDat) = 1
    /\ Len(lastQuery.result.fixDat[1].roms) = 2
    /\ \E j \in 1 .. 2 : lastQuery.result.fixDat[1].roms[j].sha1s = << >>
    /\ \E j \in 1 .. 2 : lastQuery.result.fixDat[1].roms[j].sha1s # << >>


(***************************************************************************)
(* SpecQuery: kvStore.DatsForRom on an index drawn from bounded sets        *)
(***************************************************************************)
MaxDatKeys == 2

\* The Dat keys the union maps of the queried index hold.
QueryKeys == {RealKey(d) : d \in 1 .. MaxDatKeys}

\* The values of a union map: the lists of distinct keys.
KeyLists ==
    UNION {{f \in [1 .. n -> QueryKeys] : \A i, j \in 1 .. n : f[i] = f[j] => i = j} :
              n \in 0 .. MaxDatKeys}

\* The roms handed to a query: each digest is there or nil.
QueryRoms == [sha1 : {NoHash} \cup Sha1s, md5 : {NoHash} \cup Md5s, crc : {NoHash} \cup Crcs]

\* One call per run.
DatsForRomCall(rom) ==
    /\ lastQuery = NoQuery
    /\ lastQuery' = [op |-> "dats", rom |-> rom, result |-> DatsForRom(rom)]
    /\ UNCHANGED <<rootVars, archVars, roots, generation, genFile, storeVars, pending, backup,
                   lastPurge, retagged, steps, lastIngest, obsVars, resumeVars, trailer, lockVars, wbatch,
                   serviceVars>>

\* An index in which some keys of the union maps have lost their Dat; the
\* entries are those of SHA1 1, MD5 1 and the CRC, SHA1 2 and MD5 2 have none.
InitQuery ==
    /\ RootsIdle
    /\ ArchIdle
    /\ roots = [i \in Roots |-> <<i + 1>>]
    /\ generation = 0
    /\ genFile = 0
    /\ \E held \in SUBSET QueryKeys : datsDB = [k \in held |-> 0]
    /\ \E l \in KeyLists : sha1DB = [s \in Sha1s |-> IF s = 1 THEN l ELSE << >>]
    /\ \E l \in KeyLists : md5DB = [h \in Md5s |-> IF h = 1 THEN l ELSE << >>]
    /\ crcDB \in [Crcs -> KeyLists]
    /\ crcsha1DB = EmptyMap(Crcs)
    /\ md5sha1DB = EmptyMap(Md5s)
    /\ pending = EmptyPending
    /\ backup = {}
    /\ lastPurge = NoPurge
    /\ retagged = {}
    /\ steps = 0
    /\ lastIngest = NoIngest
    /\ lastQuery = NoQuery
    /\ HarnessIdle

NextQuery == \E rom \in QueryRoms : DatsForRomCall(rom)

SpecQuery == InitQuery /\ [][NextQuery]_vars

HasDat(k) == k \in DOMAIN datsDB

\* The one map a lookup of rom reads: the first of sha1DB, md5DB and crcDB in
\* which a digest of the rom has an entry.
TierOf(rom) ==
    IF rom.sha1 # NoHash /\ Get(sha1DB, rom.sha1) # << >> THEN Get(sha1DB, rom.sha1)
    ELSE IF rom.md5 # NoHash /\ Get(md5DB, rom.md5) # << >> THEN Get(md5DB, rom.md5)
    ELSE IF rom.crc # NoHash THEN Get(crcDB, rom.crc)
    ELSE << >>

\* C17: DatsForRom returns the Dats of exactly one map, sha1DB before md5DB
\* before crcDB, in stored order, leaving out the keys without a Dat.
C17_DatsForRomTiering ==
    lastQuery.op = "dats" =>
        [i \in 1 .. Len(lastQuery.result) |-> lastQuery.result[i].key]
            = SelectSeq(TierOf(lastQuery.rom), HasDat)

\* A rom with all digests was looked up: nothing under its SHA1, two keys
\* under its MD5 of which the first has no Dat, the other order under its CRC.
C17_Witness ==
    /\ lastQuery.op = "dats"
    /\ lastQuery.rom = PayloadRom(1)
    /\ sha1DB[1] = << >>
    /\ md5DB[Md5Of[1]] = <<RealKey(1), RealKey(2)>>
    /\ crcDB[CrcOf[1]] = <<RealKey(2), RealKey(1)>>
    /\ DOMAIN datsDB = {RealKey(2)}
    /\ Len(lastQuery.result) = 1

(***************************************************************************)
(* SpecComplete: kvStore.CompleteRom on cross-link maps drawn from bounded  *)
(* sets                                                                     *)
(***************************************************************************)
\* The values of md5sha1DB and crcsha1DB: the lists of distinct SHA1s.
Sha1Lists ==
    UNION {{f \in [1 .. n -> Sha1s] : \A i, j \in 1 .. n : f[i] = f[j] => i = j} :
              n \in 0 .. Cardinality(Sha1s)}

\* kvStore.CompleteRom(rom): the rom as the call leaves it. A digest is one
\* list element, so len(dBytes) >= sha1.Size reads dBytes # << >>.
CompleteRom(rom) ==
    IF rom.sha1 # NoHash THEN rom
    ELSE IF rom.md5 # NoHash
         THEN LET dBytes == Get(md5sha1DB, rom.md5) IN
              IF dBytes # << >> THEN [rom EXCEPT !.sha1 = Head(dBytes)] ELSE rom
    ELSE IF rom.crc # NoHash
         THEN LET dBytes == Get(crcsha1DB, rom.crc) IN
              IF dBytes # << >> THEN [rom EXCEPT !.sha1 = Head(dBytes)] ELSE rom
    ELSE rom

\* One call per run.
CompleteRomCall(rom) ==
    /\ lastQuery = NoQuery
    /\ lastQuery' = [op |-> "complete", rom |-> rom, result |-> CompleteRom(rom)]
    /\ UNCHANGED <<rootVars, archVars, roots, generation, genFile, storeVars, pending, backup,
                   lastPurge, retagged, steps, lastIngest, obsVars, resumeVars, trailer, lockVars, wbatch,
                   serviceVars>>

InitComplete ==
    /\ RootsIdle
    /\ ArchIdle
    /\ roots = [i \in Roots |-> <<i + 1>>]
    /\ generation = 0
    /\ genFile = 0
    /\ datsDB = << >>
    /\ crcDB = EmptyMap(Crcs)
    /\ md5DB = EmptyMap(Md5s)
    /\ sha1DB = EmptyMap(Sha1s)
    /\ crcsha1DB \in [Crcs -> Sha1Lists]
    /\ md5sha1DB \in [Md5s -> Sha1Lists]
    /\ pending = EmptyPending
    /\ backup = {}
    /\ lastPurge = NoPurge
    /\ retagged = {}
    /\ steps = 0
    /\ lastIngest = NoIngest
    /\ lastQuery = NoQuery
    /\ HarnessIdle

NextComplete == \E rom \in QueryRoms : CompleteRomCall(rom)

SpecComplete == InitComplete /\ [][NextComplete]_vars

\* C18: a rom with a SHA1 is left as it is; a rom without one gets the first
\* SHA1 of md5sha1DB[rom.md5] when that entry is not empty, and otherwise the
\* first SHA1 of crcsha1DB[rom.crc] when that entry is not empty, also when
\* the rom has an MD5 without entry in md5sha1DB.
C18_CompleteRom ==
    lastQuery.op = "complete" =>
        LET rom == lastQuery.rom
            byMd5 == IF rom.md5 # NoHash THEN Get(md5sha1DB, rom.md5) ELSE << >>
            byCrc == IF rom.crc # NoHash THEN Get(crcsha1DB, rom.crc) ELSE << >>
        IN IF rom.sha1 # NoHash THEN lastQuery.result = rom
           ELSE IF byMd5 # << >> THEN lastQuery.result.sha1 = Head(byMd5)
           ELSE byCrc # << >> => lastQuery.result.sha1 = Head(byCrc)

(***************************************************************************)
(* SpecFlush: a shared batch whose Flush may fail at any of its six writes  *)
(***************************************************************************)
MaxFlushSteps == 4

\* kvBatch.Flush writes the sub-batches in this order.
FlushOrder == <<"dats", "crc", "md5", "sha1", "crcsha1", "md5sha1">>
FlushOk == Len(FlushOrder) + 1

PositionOf(f) == CHOOSE i \in 1 .. Len(FlushOrder) : FlushOrder[i] = f

\* A Flush that commits every sub-batch but the first before it fails.
FlushedPartDatsLast(b, n) ==
    [f \in DOMAIN b |->
        IF f = "size" THEN b.size
        ELSE IF n = FlushOk \/ PositionOf(f) > 1 THEN b[f] ELSE << >>]

\* Flush in which the n-th WriteBatch returns an error (n = FlushOk: none
\* does): the sub-batches written before the return.
FlushedPart(b, n) ==
    [f \in DOMAIN b |->
        IF f = "size" THEN b.size
        ELSE IF PositionOf(f) < n THEN b[f] ELSE << >>]

\* The batch as that Flush leaves it: the written sub-batches are cleared,
\* size is reset only at the end.
PendingPart(b, n) ==
    [f \in DOMAIN b |->
        IF f = "size" THEN (IF n = FlushOk THEN 0 ELSE b.size)
        ELSE IF PositionOf(f) < n THEN << >> ELSE b[f]]

\* The writes a batch holds.
PendingWrites(b) ==
    Len(b.dats) + Len(b.crc) + Len(b.md5) + Len(b.sha1) + Len(b.crcsha1) + Len(b.md5sha1)

\* kvBatch.Flush on the shared batch, the n-th write failing.
Flush(n) ==
    /\ pending.batch.size # 0
    /\ Commit(FlushedPart(pending.batch, n))
    /\ retagged' = retagged \cup Retags(FlushedPart(pending.batch, n))
    /\ pending' = [batch |-> PendingPart(pending.batch, n),
                   calls |-> IF n = FlushOk THEN 0 ELSE pending.calls]
    /\ lastQuery' = [op |-> "flush", failedAt |-> n, lost |-> 0,
                     left |-> PendingPart(pending.batch, n)]
    /\ UNCHANGED <<rootVars, archVars, roots, generation, genFile, backup, lastPurge, lastIngest>>

\* kvBatch.Close as kvStore.IndexRom and kvStore.IndexDat call it: Flush, then
\* kvb.db = nil and the caller lets go of the batch whatever Flush returned.
Close(n) ==
    /\ pending.batch.size # 0
    /\ Commit(FlushedPart(pending.batch, n))
    /\ retagged' = retagged \cup Retags(FlushedPart(pending.batch, n))
    /\ pending' = EmptyPending
    /\ lastQuery' = [op |-> "close", failedAt |-> n,
                     lost |-> PendingWrites(PendingPart(pending.batch, n)),
                     left |-> PendingPart(pending.batch, n)]
    /\ UNCHANGED <<rootVars, archVars, roots, generation, genFile, backup, lastPurge, lastIngest>>

\* One more operation of a run of at most MaxFlushSteps operations.
FlushStep(A) ==
    /\ steps < MaxFlushSteps
    /\ A
    /\ steps' = steps + 1
    /\ UNCHANGED <<obsVars, resumeVars, trailer, lockVars, wbatch,
                   serviceVars>>

NextFlush ==
    \/ \E d \in RealDats : FlushStep(BatchIndexDat(d))
    \/ \E p \in Payloads, path \in RomPaths : FlushStep(BatchIndexRom(p, path))
    \/ \E n \in 1 .. FlushOk : FlushStep(Flush(n))
    \/ \E n \in 1 .. FlushOk : FlushStep(Close(n))

SpecFlush == InitIndex /\ [][NextFlush]_vars

\* C21: every Dat key held in a value of the crc, md5 or sha1 map has an
\* entry in the dats map, also after a Flush that failed at one of its writes.
C21_DatsAuthoritative ==
    /\ \A k \in DOMAIN crcDB : KeySet(crcDB[k]) \subseteq DOMAIN datsDB
    /\ \A k \in DOMAIN md5DB : KeySet(md5DB[k]) \subseteq DOMAIN datsDB
    /\ \A k \in DOMAIN sha1DB : KeySet(sha1DB[k]) \subseteq DOMAIN datsDB

\* C27: a Flush that succeeds leaves the six sub-batches empty and the size
\* at 0; one that fails leaves the failed and the later sub-batches pending
\* for a repeated Flush; no pending write is let go of without being
\* committed.
C27_FlushAndRetry ==
    lastQuery.op \in {"flush", "close"} =>
        /\ lastQuery.failedAt = FlushOk => lastQuery.left = EmptyBatch
        /\ lastQuery.lost = 0

\* A Flush has failed at its fourth write, after the dats, crc and md5 writes.
C21_Witness ==
    /\ lastQuery.op = "flush"
    /\ lastQuery.failedAt = 4
    /\ pending.batch.sha1 # << >>
    /\ \E k \in DOMAIN crcDB : crcDB[k] # << >>

(***************************************************************************)
(* SpecGeneration: OrphanDats with a generation file whose write may fail,  *)
(* kvStore.IndexDat, and the store opened anew                              *)
(***************************************************************************)
\* kvStore.OrphanDats returning nil.
OrphanDatsCall ==
    /\ generation < MaxGen
    /\ generation' = generation + 1
    /\ genFile' = generation + 1
    /\ retagged' = {}
    /\ lastQuery' = [op |-> "orphan", ok |-> TRUE, before |-> generation]
    /\ UNCHANGED <<rootVars, archVars, roots, storeVars, pending, backup, lastPurge,
                   lastIngest>>

\* kvStore.OrphanDats when WriteGenerationFile returns an error: the counter
\* is incremented before the write and stays incremented.
OrphanDatsFails ==
    /\ generation < MaxGen
    /\ generation' = generation + 1
    /\ lastQuery' = [op |-> "orphan", ok |-> FALSE, before |-> generation]
    /\ UNCHANGED <<rootVars, archVars, roots, genFile, storeVars, pending, backup, lastPurge,
                   retagged, lastIngest>>

\* NewKVStoreDB in a new process on the same index directory: the counter is
\* read from the generation file; the six maps are the committed ones.
NewKVStoreDB ==
    /\ generation' = genFile
    /\ pending' = EmptyPending
    /\ lastQuery' = [op |-> "open", ok |-> TRUE, before |-> generation]
    /\ UNCHANGED <<rootVars, archVars, roots, genFile, storeVars, backup, lastPurge,
                   retagged, lastIngest>>

outsideGeneration == <<steps, obsVars, resumeVars, trailer, lockVars, wbatch,
                   serviceVars>>

NextGeneration ==
    \/ \E d \in RealDats : StoreIndexDat(d) /\ UNCHANGED outsideGeneration
    \/ OrphanDatsCall /\ UNCHANGED outsideGeneration
    \/ OrphanDatsFails /\ UNCHANGED outsideGeneration
    \/ NewKVStoreDB /\ UNCHANGED outsideGeneration

SpecGeneration == InitIndex /\ [][NextGeneration]_vars

\* C22: the generation never decreases; an OrphanDats call that returns
\* success has increased it by exactly one, and after it the generation file
\* holds the in-memory generation IndexDat tags with and Purge compares with.
C22_GenerationCounter ==
    /\ lastQuery.op \in {"orphan", "open"} => generation >= lastQuery.before
    /\ (lastQuery.op = "orphan" /\ lastQuery.ok) =>
           /\ generation = lastQuery.before + 1
           /\ genFile = generation

\* C32: the in-memory generation always equals the generation last written
\* to the generation file; an OrphanDats call whose write of the file fails
\* leaves the in-memory generation as it was.
C32_GenerationAgrees ==
    /\ generation = genFile
    /\ (lastQuery.op = "orphan" /\ ~lastQuery.ok) => generation = lastQuery.before

(***************************************************************************)
(* SpecIndexDat: runs of kvStore.IndexDat of real and artificial Dats and   *)
(* OrphanDats                                                               *)
(***************************************************************************)
\* The Dats handed to IndexDat: the catalogs, and the artificial Dat of each
\* payload as IndexRom builds it at the current generation.
IndexDatKeys == {RealKey(d) : d \in RealDats} \cup {ArtKey(p, 1, generation) : p \in Payloads}

\* kvStore.IndexDat, lines 185-192: a batch of its own, closed at once.
IndexDatCall(k) ==
    LET b == IndexDatOps(k) IN
    /\ Commit(b)
    /\ retagged' = retagged \cup Retags(b)
    /\ lastQuery' = [op |-> "indexdat", key |-> k, existed |-> k \in DOMAIN datsDB,
                     gen |-> generation,
                     pre |-> <<crcDB, md5DB, sha1DB, crcsha1DB, md5sha1DB>>]
    /\ UNCHANGED <<rootVars, archVars, roots, generation, genFile, pending, backup,
                   lastPurge, lastIngest>>

NextIndexDat ==
    \/ \E k \in IndexDatKeys : IngestStep(IndexDatCall(k))
    \/ IngestStep(OrphanDats)

SpecIndexDat == InitIndex /\ [][NextIndexDat]_vars

\* C26: IndexDat of a non-artificial Dat already in datsDB writes the dats
\* entry, tagged with the current generation, and leaves the crc, md5, sha1,
\* crcsha1 and md5sha1 maps as they were; IndexDat of a new or artificial Dat
\* has its key under every digest of every rom it lists.
C26_IndexDatKnownDat ==
    lastQuery.op = "indexdat" =>
        LET k == lastQuery.key IN
        /\ k \in DOMAIN datsDB /\ datsDB[k] = lastQuery.gen
        /\ (~k.art /\ lastQuery.existed) =>
               <<crcDB, md5DB, sha1DB, crcsha1DB, md5sha1DB>> = lastQuery.pre
        /\ (k.art \/ ~lastQuery.existed) => Listed(k)

\* Dat 1 was indexed at generation 0 and again after OrphanDats.
C26_Witness ==
    /\ lastQuery.op = "indexdat"
    /\ lastQuery.key = RealKey(1)
    /\ lastQuery.existed
    /\ lastQuery.gen = 1
    /\ sha1DB[1] = <<RealKey(1)>>

(***************************************************************************)
(* SpecAccounting: reserveRoot, adjustSize and writeSizes called by the     *)
(* workers and the observer at the same time, one memory access or file    *)
(* write per step, each call between depot.lock.Lock() and the deferred    *)
(* Unlock().                                                               *)
(***************************************************************************)
MaxCalls == 3

\* The mutex lets a goroutine in when no goroutine holds it.
CanLockAlways(l) == TRUE

\* depot.lock.Lock(), lines 480, 502 and 514: granted when nobody holds it.
CanLock(l) == l = {}

outsideLock == <<lastOp, archVars, indexVars, obsVars, resumeVars, trailer, wbatch, serviceVars>>

\* A goroutine enters one of the three calls and takes the mutex.
Lock(p, call, at) ==
    /\ calls < MaxCalls
    /\ lpc[p] = "idle"
    /\ CanLock(lock)
    /\ lock' = lock \cup {p}
    /\ lpc' = [lpc EXCEPT ![p] = at]
    /\ lcall' = [lcall EXCEPT ![p] = call]
    /\ calls' = calls + 1
    /\ UNCHANGED <<sizes, start, sizeFiles, expected, lastWrite, outsideLock>>

\* The deferred depot.lock.Unlock() of the call of p.
Unlock(p) ==
    /\ lock' = lock \ {p}
    /\ lpc' = [lpc EXCEPT ![p] = "idle"]
    /\ lcall' = [lcall EXCEPT ![p] = NoCall]

\* reserveRoot(est), lines 479-483: the loop starts at depot.start.
ReserveRootLock(p, est) ==
    Lock(p, [NoCall EXCEPT !.op = "reserve", !.i = start, !.amt = est], "scan")

\* adjustSize(index, delta), lines 513-515.
AdjustSizeLock(p, index, delta) ==
    /\ sizes[index] + delta \in SizeRange
    /\ Lock(p, [NoCall EXCEPT !.op = "adjust", !.i = index, !.amt = delta], "load")

\* writeSizes(), lines 501-505.
WriteSizesLock(p) ==
    Lock(p, [NoCall EXCEPT !.op = "write", !.snap = sizes], "write")

\* One pass of the loop of reserveRoot, lines 483-490, up to the admission
\* test; after the last root the call returns -1.
ReserveScanStep(p) ==
    LET i == lcall[p].i IN
    /\ lpc[p] = "scan"
    /\ IF i >= NumRoots
       THEN Unlock(p) /\ UNCHANGED start
       ELSE /\ UNCHANGED lock
            /\ IF Fits(sizes, i, lcall[p].amt)
               THEN /\ lpc' = [lpc EXCEPT ![p] = "load"]
                    /\ UNCHANGED <<lcall, start>>
               ELSE /\ start' = IF sizes[i] >= maxSizes[i] THEN i ELSE start
                    /\ lcall' = [lcall EXCEPT ![p].i = i + 1]
                    /\ UNCHANGED lpc
    /\ UNCHANGED <<sizes, sizeFiles, expected, lastWrite, calls, outsideLock>>

\* depot.sizes[i] += amount, lines 485 and 517: the read of the element.
LoadSize(p) ==
    /\ lpc[p] = "load"
    /\ lcall' = [lcall EXCEPT ![p].tmp = sizes[lcall[p].i]]
    /\ lpc' = [lpc EXCEPT ![p] = "store"]
    /\ UNCHANGED <<lock, sizes, start, sizeFiles, expected, lastWrite, calls, outsideLock>>

\* depot.sizes[i] += amount: the write of the sum, and the return.
StoreSize(p) ==
    LET i == lcall[p].i IN
    /\ lpc[p] = "store"
    /\ sizes' = [sizes EXCEPT ![i] = lcall[p].tmp + lcall[p].amt]
    /\ expected' = [expected EXCEPT ![i] = @ + lcall[p].amt]
    /\ Unlock(p)
    /\ UNCHANGED <<start, sizeFiles, lastWrite, calls, outsideLock>>

\* One pass of the loop of writeSizes, lines 505-510: writeSizeFile puts the
\* root's size into its size file, or fails and is logged.
WriteSizeFile(p, ok) ==
    LET k == lcall[p].i IN
    /\ lpc[p] = "write"
    /\ k < NumRoots
    /\ sizeFiles' = IF ok THEN [sizeFiles EXCEPT ![k] = sizes[k]] ELSE sizeFiles
    /\ lcall' = [lcall EXCEPT ![p].i = k + 1, ![p].failed = @ \/ ~ok]
    /\ UNCHANGED <<lock, lpc, sizes, start, expected, lastWrite, calls, outsideLock>>

\* writeSizes returns after the last root.
WriteSizesReturn(p) ==
    /\ lpc[p] = "write"
    /\ lcall[p].i >= NumRoots
    /\ lastWrite' = [done |-> TRUE, failed |-> lcall[p].failed,
                     snap |-> lcall[p].snap, files |-> sizeFiles]
    /\ Unlock(p)
    /\ UNCHANGED <<sizes, start, sizeFiles, expected, calls, outsideLock>>

InitAccounting == RootsIdle /\ ArchIdle /\ IndexIdle /\ HarnessIdle

NextAccounting ==
    \/ \E w \in Workers, est \in 0 .. MaxEst : ReserveRootLock(w, est)
    \/ \E w \in Workers, i \in Roots, delta \in (-MaxDelta) .. MaxDelta :
            AdjustSizeLock(w, i, delta)
    \/ WriteSizesLock(ObserverProc)
    \/ \E w \in Workers : ReserveScanStep(w)
    \/ \E w \in Workers : LoadSize(w)
    \/ \E w \in Workers : StoreSize(w)
    \/ \E ok \in BOOLEAN : WriteSizeFile(ObserverProc, ok)
    \/ WriteSizesReturn(ObserverProc)

SpecAccounting == InitAccounting /\ [][NextAccounting]_vars

\* C28: whatever the interleaving of reserveRoot, adjustSize and writeSizes
\* calls of the workers and the observer, no update is lost: when no call is
\* in progress every root's size is its initial size plus the reservations
\* and deltas committed to it; and a writeSizes call all of whose file writes
\* succeeded has persisted the sizes of one point of the serial order, the
\* point at which it took the mutex.
C28_AccountingAtomic ==
    /\ (\A p \in LockProcs : lpc[p] = "idle") => sizes = expected
    /\ (lastWrite.done /\ ~lastWrite.failed) => lastWrite.files = lastWrite.snap

\* Two updates were committed to different roots and a writeSizes call that
\* came after them has written both size files.
C28_Witness ==
    /\ \A p \in LockProcs : lpc[p] = "idle"
    /\ calls = MaxCalls
    /\ lastWrite.done /\ ~lastWrite.failed
    /\ sizes[0] > 0 /\ sizes[1] > 0
    /\ lastWrite.files = sizes

(***************************************************************************)
(* SpecIndexRom: kvStore.IndexRom called by the archive workers at the      *)
(* same time, each call on a batch of its own: the lookups of IndexRom,     *)
(* then the Close that commits its batch.                                   *)
(***************************************************************************)
\* kvStore.IndexRom up to the return of batch.IndexRom, lines 177-178: the
\* batch is filled from what DatsForRom and the Gets read in the stores.
IndexRomBegin(w, p, path) ==
    /\ ~wbatch[w].active
    /\ wbatch' = [wbatch EXCEPT ![w] =
                    [active |-> TRUE, batch |-> IndexRomOps(PayloadRom(p), path)]]
    /\ UNCHANGED <<rootVars, archVars, roots, generation, genFile, storeVars, pending, backup,
                   lastPurge, retagged, histVars>>

\* batch.Close(), line 182: the batch of the call is written to the stores.
IndexRomClose(w) ==
    /\ wbatch[w].active
    /\ Commit(wbatch[w].batch)
    /\ wbatch' = [wbatch EXCEPT ![w] = NoBatch]
    /\ UNCHANGED <<rootVars, archVars, roots, generation, genFile, pending, backup,
                   lastPurge, retagged, histVars>>

outsideIndexRom == <<obsVars, resumeVars, trailer, lockVars, serviceVars>>

\* One more operation of a run of at most MaxIngestSteps operations.
IndexRomStep(A) ==
    /\ steps < MaxIngestSteps
    /\ A
    /\ steps' = steps + 1
    /\ UNCHANGED outsideIndexRom

NextIndexRom ==
    \/ \E w \in Workers, p \in Payloads, path \in RomPaths :
            IndexRomStep(IndexRomBegin(w, p, path))
    \/ \E w \in Workers : IndexRomStep(IndexRomClose(w))
    \/ \E d \in RealDats : IndexRomStep(StoreIndexDat(d) /\ UNCHANGED wbatch)
    \/ IndexRomStep(OrphanDats /\ UNCHANGED wbatch)

SpecIndexRom == InitIndex /\ [][NextIndexRom]_vars

\* The artificial Dats in datsDB that list the rom with SHA1 s.
ArtificialDats(s) == {k \in DOMAIN datsDB : k.art /\ k.id = s}

\* C31: whatever IndexRom calls for roms with the same SHA1 ran, one after
\* the other or at the same time, under whatever names and paths, the index
\* holds at most one artificial Dat that lists that SHA1.
C31_OneArtificialDat ==
    \A s \in Sha1s : Cardinality(ArtificialDats(s)) <= 1
(***************************************************************************)
(* SpecService: start commands of concurrent requests, the job goroutines   *)
(* they launch, each job's ticker goroutine, broadCastProgress and the      *)
(* SendProgress goroutines of the progress listeners (part_002).            *)
(***************************************************************************)
MaxStarts == 2
MaxBTicks == 1

\* A mutex that lets every goroutine in.
JobMutexNeverHeld(m) == TRUE

\* rs.jobMutex.Lock(): granted when no goroutine holds it.
JobMutexFree(m) == m = {}

\* rs.progressMutex.Lock(): granted when no goroutine holds it.
ProgressMutexFree(m) == m = {}

outsideService ==
    <<rootVars, archVars, indexVars, obsVars, resumeVars, trailer, lockVars, wbatch>>

\* The jobs between their launch and their reset of rs.busy.
Working == {j \in JobIds : jpc[j].pc \in {"bcastStart", "work", "stopTicker", "reset"}}

\* The job goroutines that were launched and have not returned.
Alive == {j \in JobIds : jpc[j].pc \notin {"none", "done"}}

\* What a start command that launches nothing reports.
Rejected(r, err) ==
    [cmd |-> rpc[r].cmd, busyBefore |-> busy, nameBefore |-> jobName,
     launched |-> FALSE, err |-> err, busyAfter |-> busy', nameAfter |-> jobName',
     working |-> Working, alive |-> Alive]

\* startArchive / startRefreshDats, lines 183 and 363: rs.jobMutex.Lock().
StartLock(r, cmd, args) ==
    /\ starts < MaxStarts
    /\ \E j \in JobIds : jpc[j].pc = "none"
    /\ rpc[r].pc = "idle"
    /\ JobMutexFree(jobMutex)
    /\ jobMutex' = jobMutex \cup {r}
    /\ rpc' = [rpc EXCEPT ![r] = [pc |-> "check", cmd |-> cmd, args |-> args]]
    /\ starts' = starts + 1
    /\ UNCHANGED <<busy, jobName, progressMutex, progressListeners, jpc, tpc, bc, spc,
                   lastStart, bticks, outsideService>>

\* Lines 366-376 and 186-192: startArchive without arguments returns at once;
\* a command that finds rs.busy set reports the running job and returns.
StartCheck(r) ==
    /\ rpc[r].pc = "check"
    /\ IF (rpc[r].cmd = "archive" /\ ~rpc[r].args) \/ busy
       THEN /\ UNCHANGED <<busy, jobName>>
            /\ lastStart' = Rejected(r, FALSE)
            /\ jobMutex' = jobMutex \ {r}
            /\ rpc' = [rpc EXCEPT ![r] = NoStartCall]
       ELSE /\ rpc' = [rpc EXCEPT ![r].pc = "set"]
            /\ UNCHANGED <<busy, jobName, lastStart, jobMutex>>
    /\ UNCHANGED <<progressMutex, progressListeners, jpc, tpc, bc, spc, starts, bticks,
                   outsideService>>

\* Lines 378-394 of startArchive when resume is "latest" and
\* findLatestResumeLog fails or finds no log: rs.busy and rs.jobName are set
\* and the command returns the error; no goroutine is launched.
StartFails(r) ==
    /\ rpc[r].pc = "set"
    /\ rpc[r].cmd = "archive"
    /\ busy' = TRUE
    /\ jobName' = rpc[r].cmd
    /\ lastStart' = Rejected(r, TRUE)
    /\ jobMutex' = jobMutex \ {r}
    /\ rpc' = [rpc EXCEPT ![r] = NoStartCall]
    /\ UNCHANGED <<progressMutex, progressListeners, jpc, tpc, bc, spc, starts, bticks,
                   outsideService>>

\* Lines 378-439 and 194-223: rs.busy and rs.jobName are set, the job
\* goroutine is launched and the command returns.  The goroutine begins with
\* its first broadCastProgress call.
StartLaunch(r) ==
    /\ rpc[r].pc = "set"
    /\ \E j \in JobIds : jpc[j].pc = "none"
    /\ LET j == Min({i \in JobIds : jpc[i].pc = "none"}) IN
       /\ busy' = TRUE
       /\ jobName' = rpc[r].cmd
       /\ jpc' = [jpc EXCEPT ![j] = [pc |-> "bcastStart", kind |-> rpc[r].cmd]]
       /\ bc' = [bc EXCEPT ![<<"job", j>>] = [NoBroadcast EXCEPT !.pc = "first"]]
       /\ lastStart' =
              [cmd |-> rpc[r].cmd, busyBefore |-> busy, nameBefore |-> jobName,
               launched |-> TRUE, err |-> FALSE, busyAfter |-> TRUE,
               nameAfter |-> rpc[r].cmd, working |-> Working, alive |-> Alive]
    /\ jobMutex' = jobMutex \ {r}
    /\ rpc' = [rpc EXCEPT ![r] = NoStartCall]
    /\ UNCHANGED <<progressMutex, progressListeners, tpc, spc, starts, bticks, outsideService>>

\* broadCastProgress lines 116-121: rs.busy, the progress and rs.jobName are
\* read under rs.progressMutex for the message, and the mutex is released.
BroadcastRead(c) ==
    /\ bc[c].pc = "first"
    /\ ProgressMutexFree(progressMutex)
    /\ bc' = [bc EXCEPT ![c].pc = "lock"]
    /\ UNCHANGED <<busy, jobName, jobMutex, progressMutex, progressListeners, rpc, jpc, tpc,
                   spc, lastStart, starts, bticks, outsideService>>

\* Lines 140-143: the mutex is taken again, until the call returns; the range
\* over rs.progressListeners begins.
BroadcastLock(c) ==
    /\ bc[c].pc = "lock"
    /\ ProgressMutexFree(progressMutex)
    /\ progressMutex' = progressMutex \cup {c}
    /\ bc' = [bc EXCEPT ![c] = [pc |-> "send", cur |-> 0, todo |-> progressListeners]]
    /\ UNCHANGED <<busy, jobName, jobMutex, progressListeners, rpc, jpc, tpc, spc,
                   lastStart, starts, bticks, outsideService>>

\* The range over the map yields its next channel, in no particular order.
BroadcastNext(c, l) ==
    /\ bc[c].pc = "send"
    /\ bc[c].cur = 0
    /\ l \in bc[c].todo
    /\ bc' = [bc EXCEPT ![c].cur = l]
    /\ UNCHANGED <<busy, jobName, jobMutex, progressMutex, progressListeners, rpc, jpc, tpc,
                   spc, lastStart, starts, bticks, outsideService>>

\* Line 144, `c <- pmsg` on the unbuffered channel of the listener, together
\* with the receive in the listener's `range listC`, line 278.
BroadcastSend(c) ==
    LET l == bc[c].cur IN
    /\ bc[c].pc = "send"
    /\ l # 0
    /\ spc[l] = "recv"
    /\ spc' = [spc EXCEPT ![l] = "send"]
    /\ bc' = [bc EXCEPT ![c].cur = 0, ![c].todo = @ \ {l}]
    /\ UNCHANGED <<busy, jobName, jobMutex, progressMutex, progressListeners, rpc, jpc, tpc,
                   lastStart, starts, bticks, outsideService>>

\* broadCastProgress returns, the deferred Unlock runs, and the caller goes
\* on: the job to NewTicker and its ticker goroutine, lines 399-412, or to its
\* end; the ticker goroutine back to its select.
BroadcastReturn(c) ==
    LET j == c[2] IN
    /\ bc[c].pc = "send"
    /\ bc[c].cur = 0
    /\ bc[c].todo = {}
    /\ progressMutex' = progressMutex \ {c}
    /\ bc' = [bc EXCEPT ![c] = NoBroadcast]
    /\ IF c[1] = "tick"
       THEN /\ tpc' = [tpc EXCEPT ![j] = "select"]
            /\ UNCHANGED jpc
       ELSE IF jpc[j].pc = "bcastStart"
            THEN /\ jpc' = [jpc EXCEPT ![j].pc = "work"]
                 /\ tpc' = [tpc EXCEPT ![j] = "select"]
            ELSE /\ jpc' = [jpc EXCEPT ![j].pc = "done"]
                 /\ UNCHANGED tpc
    /\ UNCHANGED <<busy, jobName, jobMutex, progressListeners, rpc, spc, lastStart, starts,
                   bticks, outsideService>>

\* `case t := <-ticker.C`, line 406, and line 201: the ticker goroutine calls
\* broadCastProgress.  A tick sent before ticker.Stop() can still be taken
\* while the job waits to send on stopTicker.
TickerTick(j) ==
    /\ bticks < MaxBTicks
    /\ tpc[j] = "select"
    /\ jpc[j].pc \in {"work", "stopTicker"}
    /\ tpc' = [tpc EXCEPT ![j] = "bcast"]
    /\ bc' = [bc EXCEPT ![<<"tick", j>>] = [NoBroadcast EXCEPT !.pc = "first"]]
    /\ bticks' = bticks + 1
    /\ UNCHANGED <<busy, jobName, jobMutex, progressMutex, progressListeners, rpc, jpc, spc,
                   lastStart, starts, outsideService>>

\* depot.Archive or db.Refresh returns and ticker.Stop() is called, lines
\* 421-427 and 206-211.
JobWork(j) ==
    /\ jpc[j].pc = "work"
    /\ jpc' = [jpc EXCEPT ![j].pc = IF jpc[j].kind = "archive" THEN "stopTicker" ELSE "reset"]
    /\ UNCHANGED <<busy, jobName, jobMutex, progressMutex, progressListeners, rpc, tpc, bc,
                   spc, lastStart, starts, bticks, outsideService>>

\* `stopTicker <- true`, line 428, together with `case <-stopTicker`, line
\* 408: the channel is unbuffered, the send waits for the ticker goroutine to
\* be in its select.
JobStopTicker(j) ==
    /\ jpc[j].pc = "stopTicker"
    /\ tpc[j] = "select"
    /\ tpc' = [tpc EXCEPT ![j] = "stopped"]
    /\ jpc' = [jpc EXCEPT ![j].pc = "reset"]
    /\ UNCHANGED <<busy, jobName, jobMutex, progressMutex, progressListeners, rpc, bc, spc,
                   lastStart, starts, bticks, outsideService>>

\* Lines 430-435 and 213-218: under rs.jobMutex rs.busy and rs.jobName are
\* reset; then the job calls broadCastProgress for the last time.
JobReset(j) ==
    /\ jpc[j].pc = "reset"
    /\ JobMutexFree(jobMutex)
    /\ busy' = FALSE
    /\ jobName' = ""
    /\ jpc' = [jpc EXCEPT ![j].pc = "bcastFinal"]
    /\ bc' = [bc EXCEPT ![<<"job", j>>] = [NoBroadcast EXCEPT !.pc = "first"]]
    /\ UNCHANGED <<jobMutex, progressMutex, progressListeners, rpc, tpc, spc, lastStart,
                   starts, bticks, outsideService>>

\* SendProgress lines 265-276: the listener's channel is made and registered
\* under rs.progressMutex.
ListenerRegister(l) ==
    /\ spc[l] = "none"
    /\ ProgressMutexFree(progressMutex)
    /\ progressListeners' = progressListeners \cup {l}
    /\ spc' = [spc EXCEPT ![l] = "recv"]
    /\ UNCHANGED <<busy, jobName, jobMutex, progressMutex, rpc, jpc, tpc, bc, lastStart,
                   starts, bticks, outsideService>>

\* Lines 279-283: websocket.JSON.Send of the received message; on an error the
\* listener leaves its receive loop.
ListenerSend(l, ok) ==
    /\ spc[l] = "send"
    /\ spc' = [spc EXCEPT ![l] = IF ok THEN "recv" ELSE "unregister"]
    /\ UNCHANGED <<busy, jobName, jobMutex, progressMutex, progressListeners, rpc, jpc, tpc,
                   bc, lastStart, starts, bticks, outsideService>>

\* Lines 286-287: unregisterProgressListener takes rs.progressMutex and
\* deletes the entry; then the channel is closed.
ListenerUnregister(l) ==
    /\ spc[l] = "unregister"
    /\ ProgressMutexFree(progressMutex)
    /\ progressListeners' = progressListeners \ {l}
    /\ spc' = [spc EXCEPT ![l] = "closed"]
    /\ UNCHANGED <<busy, jobName, jobMutex, progressMutex, rpc, jpc, tpc, bc, lastStart,
                   starts, bticks, outsideService>>

InitService == RootsIdle /\ ArchIdle /\ IndexIdle /\ HarnessIdle

NextService ==
    \/ \E r \in Requests, args \in BOOLEAN : StartLock(r, "archive", args)
    \/ \E r \in Requests : StartLock(r, "refresh-dats", TRUE)
    \/ \E r \in Requests : StartCheck(r)
    \/ \E r \in Requests : StartFails(r)
    \/ \E r \in Requests : StartLaunch(r)
    \/ \E c \in Callers : BroadcastRead(c)
    \/ \E c \in Callers : BroadcastLock(c)
    \/ \E c \in Callers, l \in Listeners : BroadcastNext(c, l)
    \/ \E c \in Callers : BroadcastSend(c)
    \/ \E c \in Callers : BroadcastReturn(c)
    \/ \E j \in JobIds : TickerTick(j)
    \/ \E j \in JobIds : JobWork(j)
    \/ \E j \in JobIds : JobStopTicker(j)
    \/ \E j \in JobIds : JobReset(j)
    \/ \E l \in Listeners : ListenerRegister(l)
    \/ \E l \in Listeners, ok \in BOOLEAN : ListenerSend(l, ok)
    \/ \E l \in Listeners : ListenerUnregister(l)

SpecService == InitService /\ [][NextService]_vars

\* The start commands and goroutines get to run: a step that stays possible
\* is taken.
FairService == SpecService /\ WF_vars(NextService)

(***************************************************************************)
(* SpecJobs: the start commands and the jobs of SpecService while no        *)
(* progress listener is connected.                                          *)
(***************************************************************************)
NextJobs ==
    \/ \E r \in Requests, args \in BOOLEAN : StartLock(r, "archive", args)
    \/ \E r \in Requests : StartLock(r, "refresh-dats", TRUE)
    \/ \E r \in Requests : StartCheck(r)
    \/ \E r \in Requests : StartFails(r)
    \/ \E r \in Requests : StartLaunch(r)
    \/ \E c \in Callers : BroadcastRead(c)
    \/ \E c \in Callers : BroadcastLock(c)
    \/ \E c \in Callers : BroadcastReturn(c)
    \/ \E j \in JobIds : TickerTick(j)
    \/ \E j \in JobIds : JobWork(j)
    \/ \E j \in JobIds : JobStopTicker(j)
    \/ \E j \in JobIds : JobReset(j)

SpecJobs == InitService /\ [][NextJobs]_vars

\* C33 as the code has it: at most one job is between its launch and its
\* reset of rs.busy at any moment, and a start command issued while such a
\* job exists launches nothing and changes neither busy nor jobName.
C33_SingleWorkingJob ==
    /\ Cardinality(Working) <= 1
    /\ Working # {} => busy
    /\ lastStart.working # {} =>
           /\ ~lastStart.launched
           /\ lastStart.busyAfter = lastStart.busyBefore
           /\ lastStart.nameAfter = lastStart.nameBefore

\* C33: at most one job goroutine runs at any moment, and a start command
\* issued while a job goroutine runs launches nothing and changes neither
\* busy nor jobName.
C33_SingleJobGoroutine ==
    /\ Cardinality(Alive) <= 1
    /\ lastStart.alive # {} =>
           /\ ~lastStart.launched
           /\ lastStart.busyAfter = lastStart.busyBefore
           /\ lastStart.nameAfter = lastStart.nameBefore

\* A start command was turned away while the job launched before it was at
\* work.
C33_Witness ==
    /\ lastStart.cmd # ""
    /\ ~lastStart.launched
    /\ lastStart.busyBefore
    /\ \E j \in lastStart.working : jpc[j].pc = "work"
    /\ starts = MaxStarts

\* C34: a startArchive call that returns an error without launching its job
\* goroutine leaves rs.busy false.
C34_FailedStartReleasesBusy ==
    (lastStart.err /\ ~lastStart.launched) => ~lastStart.busyAfter

\* C35: every broadCastProgress call returns, and every launched job gets to
\* its end: it stops its ticker, resets rs.busy and sends its last broadcast.
C35_BroadcastReturns ==
    /\ \A c \in Callers : (bc[c].pc # "idle") ~> (bc[c].pc = "idle")
    /\ \A j \in JobIds : (jpc[j].pc # "none") ~> (jpc[j].pc = "done")
=============================================================================
